---- MODULE Spec2Model ----
(***************************************************************************)
(* Bet lifecycle of worker/bot.py: the LocalFileManager tables, the        *)
(* evaluation of one live match (process_live_match, place_regular_bet,    *)
(* check_ht_result), the stale bet reconciliation                          *)
(* (check_and_resolve_stale_bets), the JSON files behind the tables         *)
(* (_load_data, _save_data, save_all) and the main loop (run_bot_cycle).    *)
(*                                                                         *)
(* Texts on which the code does substring tests (the status description)   *)
(* are sequences of one-character strings; datetimes are counted in ticks  *)
(* of 1/TicksPerSecond second and a formatted timestamp keeps whole        *)
(* seconds only, as '%Y-%m-%d %H:%M:%S' does.                              *)
(***************************************************************************)
EXTENDS Integers, Sequences, FiniteSets, TLC

VARIABLES tracked, unresolved, resolved, config, now, ticks, live, last,
          disk, pc, faults, cycle, SOFASCORE_CLIENT, telegram

vars == <<tracked, unresolved, resolved, config, now, ticks, live, last,
          disk, pc, faults, cycle, SOFASCORE_CLIENT, telegram>>

(***************************************************************************)
(* Bounds of the model.                                                    *)
(***************************************************************************)
\* clock advances in one behaviour
MaxTicks == 1
\* times the data source may deliver the snapshot just evaluated once more
MaxRepeats == 1
\* resolution of the clock: ticks per second (utcnow() is finer than the
\* one-second resolution of the stored timestamps)
TicksPerSecond == 2
\* file writes that fail, and files damaged while the process is down, in one
\* behaviour (each)
MaxFaults == 1
\* cycles of the main loop in one behaviour
MaxCycles == 2

(***************************************************************************)
(* Program constants (bot.py lines 36-60).                                 *)
(***************************************************************************)
SLEEP_TIME == 75
FIXTURE_API_INTERVAL == 900
BET_RESOLUTION_WAIT_MINUTES == 180
MINUTES_REGULAR_BET == {36, 37}
BET_TYPE_REGULAR == "regular"
STATUS_LIVE == { <<"L","I","V","E">>, <<"1","H">>, <<"2","H">>, <<"E","T">>, <<"P">> }
STATUS_HALFTIME == <<"H","T">>
STATUS_FINISHED == { <<"F","T">>, <<"A","E","T">>, <<"P","E","N">> }

\* Python's None where the model needs it as a string value
None == "None"

(***************************************************************************)
(* Text helpers: str.upper() and the `in` substring test.                  *)
(***************************************************************************)
LowerCase == <<"a","b","c","d","e","f","g","h","i","j","k","l","m",
               "n","o","p","q","r","s","t","u","v","w","x","y","z">>
UpperCase == <<"A","B","C","D","E","F","G","H","I","J","K","L","M",
               "N","O","P","Q","R","S","T","U","V","W","X","Y","Z">>

UpperChar(ch) ==
    IF \E i \in 1..Len(LowerCase) : LowerCase[i] = ch
    THEN UpperCase[CHOOSE i \in 1..Len(LowerCase) : LowerCase[i] = ch]
    ELSE ch

Upper(s) == [i \in 1..Len(s) |-> UpperChar(s[i])]

Contains(sub, s) ==
    \E i \in 1..(Len(s) - Len(sub) + 1) : SubSeq(s, i, i + Len(sub) - 1) = sub

(***************************************************************************)
(* Timestamps: strftime keeps whole seconds, strptime fails on other text. *)
(***************************************************************************)
strftime(t) == [kind |-> "time", sec |-> t \div TicksPerSecond]
BadStamp == [kind |-> "garbage", sec |-> 0]
NoStamp == [kind |-> "missing", sec |-> 0]
Parses(stamp) == stamp.kind = "time"
strptime(stamp) == stamp.sec * TicksPerSecond

(***************************************************************************)
(* Python dicts as functions on their key set.                             *)
(***************************************************************************)
EmptyDict == <<>>
Put(d, k, v) == [x \in (DOMAIN d) \cup {k} |-> IF x = k THEN v ELSE d[x]]
Pop(d, k) == [x \in (DOMAIN d) \ {k} |-> d[x]]
DictUpdate(d, e) == [x \in (DOMAIN d) \cup (DOMAIN e) |-> IF x \in DOMAIN e THEN e[x] ELSE d[x]]
Get(d, k, default) == IF k \in DOMAIN d THEN d[k] ELSE default

\* str(match_id): the key of a fixture in every table
Key(id) == ToString(id)

(***************************************************************************)
(* LocalFileManager.  A store st is the four in-memory tables              *)
(* [tracked, unresolved, resolved, config]; a context c = [st, log] is the  *)
(* store together with the log of the Store mutations, external fetches and *)
(* notification sends a handler has performed so far, in order, and with    *)
(* c.steps[i] the tables as they are once the event c.log[i] has happened.  *)
(***************************************************************************)
Context(st) == [st |-> st, log |-> <<>>, steps |-> <<>>]

Logged(c, e) == [c EXCEPT !.log = Append(@, e), !.steps = Append(@, c.st)]

\* the Store operations that change a table; each ends with save_all()
Mutations == {"add_unresolved_bet", "move_to_resolved", "update_tracked_match",
              "delete_tracked_match", "update_last_api_call"}

\* the mutations of a handler in call order, each with the tables it leaves
MutationsOf(c) ==
    SelectSeq([i \in DOMAIN c.log |-> [ev |-> c.log[i].ev, id |-> c.log[i].id, st |-> c.steps[i]]],
              LAMBDA e : e.ev \in Mutations)

is_bet_unresolved(st, match_id) == Key(match_id) \in DOMAIN st.unresolved

get_unresolved_bet_data(st, match_id) == Get(st.unresolved, Key(match_id), EmptyDict)

\* faulty variant: a bet placed exactly at the threshold counts as stale
get_stale_unresolved_bets_AtThreshold(st, minutes_to_wait, t) ==
    LET time_threshold == t - minutes_to_wait * 60 * TicksPerSecond
        stale == { k \in DOMAIN st.unresolved :
                     LET bet_info == st.unresolved[k]
                         placed_at_str == Get(bet_info, "placed_at", NoStamp)
                     IN  /\ Get(bet_info, "bet_type", None) \notin {BET_TYPE_REGULAR}
                         /\ placed_at_str # NoStamp
                         /\ Parses(placed_at_str)
                         /\ strptime(placed_at_str) <= time_threshold }
    IN  [k \in stale |-> st.unresolved[k]]

get_stale_unresolved_bets(st, minutes_to_wait, t) ==
    LET time_threshold == t - minutes_to_wait * 60 * TicksPerSecond
        stale == { k \in DOMAIN st.unresolved :
                     LET bet_info == st.unresolved[k]
                         placed_at_str == Get(bet_info, "placed_at", NoStamp)
                     IN  /\ Get(bet_info, "bet_type", None) \notin {BET_TYPE_REGULAR}
                         /\ placed_at_str # NoStamp
                         /\ Parses(placed_at_str)
                         /\ strptime(placed_at_str) < time_threshold }
    IN  [k \in stale |-> st.unresolved[k]]

add_unresolved_bet(c, match_id, data, t) ==
    LET stamped == Put(data, "placed_at", strftime(t))
    IN  Logged([c EXCEPT !.st.unresolved = Put(@, Key(match_id), stamped)],
               [ev |-> "add_unresolved_bet", id |-> Key(match_id)])

\* faulty variant: the bet is copied to the resolved table and not removed from the
\* unresolved one
move_to_resolved_NoPop(c, match_id, bet_info, outcome, t) ==
    LET resolved_data == DictUpdate(bet_info,
                                    [outcome |-> outcome, resolved_at |-> strftime(t),
                                     resolution_timestamp |-> strftime(t)])
    IN  Logged([c EXCEPT !.st.resolved = Put(@, Key(match_id), resolved_data)],
               [ev |-> "move_to_resolved", id |-> Key(match_id)])

move_to_resolved(c, match_id, bet_info, outcome, t) ==
    LET resolved_data == DictUpdate(bet_info,
                                    [outcome |-> outcome, resolved_at |-> strftime(t),
                                     resolution_timestamp |-> strftime(t)])
    IN  Logged([c EXCEPT !.st.resolved = Put(@, Key(match_id), resolved_data),
                         !.st.unresolved = Pop(@, Key(match_id))],
               [ev |-> "move_to_resolved", id |-> Key(match_id)])

get_tracked_match(st, match_id) == Get(st.tracked, Key(match_id), EmptyDict)

update_tracked_match(c, match_id, data) ==
    LET current_data == Get(c.st.tracked, Key(match_id), EmptyDict)
    IN  Logged([c EXCEPT !.st.tracked = Put(@, Key(match_id), DictUpdate(current_data, data))],
               [ev |-> "update_tracked_match", id |-> Key(match_id)])

delete_tracked_match(c, match_id) ==
    Logged([c EXCEPT !.st.tracked = Pop(@, Key(match_id))],
           [ev |-> "delete_tracked_match", id |-> Key(match_id),
            while_unresolved |-> Key(match_id) \in DOMAIN c.st.unresolved])

get_last_api_call(st) ==
    Get(Get(st.config, "api_tracker", EmptyDict), "last_resolution_api_call", NoStamp)

update_last_api_call(c, t) ==
    LET tracker == Get(c.st.config, "api_tracker", EmptyDict)
    IN  Logged([c EXCEPT !.st.config =
                    Put(@, "api_tracker", Put(tracker, "last_resolution_api_call", strftime(t)))],
               [ev |-> "update_last_api_call", id |-> None])

(***************************************************************************)
(* The four JSON files.  A file is missing, holds the JSON text of a dict   *)
(* (kind "json"; json.load gives back the dict json.dump wrote, the tables  *)
(* having string keys and string, bool, int or null values), holds text     *)
(* json.load rejects with JSONDecodeError or cannot be read (IOError)       *)
(* (kind "unparseable"), or holds bytes that are not text in the encoding   *)
(* open() reads with, so that f.read() raises UnicodeDecodeError (kind      *)
(* "undecodable").                                                          *)
(***************************************************************************)
\* the tables in the order save_all writes their files (lines 105-108)
Files == <<"tracked", "unresolved", "resolved", "config">>
FileNames == { Files[i] : i \in DOMAIN Files }

MissingFile == [kind |-> "missing"]
json_dump(data) == [kind |-> "json", data |-> data]

\* _load_data raises: line 89 catches json.JSONDecodeError and IOError only, and
\* UnicodeDecodeError is neither
LoadRaises(file) == file.kind = "undecodable"

\* _load_data where it returns
load_data(file) == IF file.kind = "json" THEN file.data ELSE EmptyDict

\* faulty variant: a file that already holds a table is not written again
save_data_OnlyNewFile(file, data, outcome) ==
    IF outcome = "ok" /\ file.kind # "json" THEN json_dump(data)
    ELSE IF outcome = "write_fails" THEN [kind |-> "unparseable"]
    ELSE file

\* _save_data: outcome "ok"; "open_fails" (open raises IOError, the file is as
\* it was); "write_fails" (open has truncated the file and json.dump raises
\* IOError).  The IOError is logged and _save_data returns.
save_data(file, data, outcome) ==
    IF outcome = "ok" THEN json_dump(data)
    ELSE IF outcome = "open_fails" THEN file
    ELSE [kind |-> "unparseable"]

\* save_all with every write succeeding
save_all(st) == [f \in FileNames |-> json_dump(st[f])]

\* the files after a handler that has run to its end, the files being d before
Saved(d, c) == IF MutationsOf(c) # <<>> THEN save_all(c.st) ELSE d

\* send_telegram: the attempt is logged; delivered is what the call returns
send_telegram(c, id, kind, score, delivered) ==
    Logged(c, [ev |-> "send_telegram", id |-> id, kind |-> kind,
               score |-> score, delivered |-> delivered])

(***************************************************************************)
(* Bet Evaluator.  state is the fixture's tracking dict; delivered is what  *)
(* send_telegram returns if the handler calls it; t is utcnow().            *)
(***************************************************************************)
\* faulty variant: any score with two goals for the home side qualifies
QualifyingScores_AnyHomeTwo == {"1-1", "2-2", "3-3", "2-1"}

\* line 361
QualifyingScores == {"1-1", "2-2", "3-3"}

\* faulty variant: the check of line 354 for an existing unresolved bet is lost
place_regular_bet_NoPreCheck(c, state, fixture_id, score, t, delivered) ==
    IF score \in QualifyingScores
    THEN LET state2 == Put(Put(state, "bet_placed_36", TRUE), "score_36", score)
             c1 == update_tracked_match(c, fixture_id, state2)
             unresolved_data == [placed_at |-> strftime(t),
                                 bet_type |-> BET_TYPE_REGULAR,
                                 score_36 |-> score,
                                 fixture_id |-> fixture_id,
                                 sofascored_id |-> fixture_id]
             c2 == add_unresolved_bet(c1, fixture_id, unresolved_data, t)
         IN  send_telegram(c2, Key(fixture_id), "placement", score, delivered)
    ELSE update_tracked_match(c, fixture_id, Put(state, "bet_placed_36", TRUE))

place_regular_bet(c, state, fixture_id, score, t, delivered) ==
    IF is_bet_unresolved(c.st, fixture_id)
    THEN IF ~Get(state, "bet_placed_36", FALSE)
         THEN update_tracked_match(c, fixture_id, Put(state, "bet_placed_36", TRUE))
         ELSE c
    ELSE IF score \in QualifyingScores
         THEN LET state2 == Put(Put(state, "bet_placed_36", TRUE), "score_36", score)
                  c1 == update_tracked_match(c, fixture_id, state2)
                  unresolved_data == [placed_at |-> strftime(t),
                                      bet_type |-> BET_TYPE_REGULAR,
                                      score_36 |-> score,
                                      fixture_id |-> fixture_id,
                                      sofascored_id |-> fixture_id]
                  c2 == add_unresolved_bet(c1, fixture_id, unresolved_data, t)
              IN  send_telegram(c2, Key(fixture_id), "placement", score, delivered)
         ELSE update_tracked_match(c, fixture_id, Put(state, "bet_placed_36", TRUE))

\* faulty variant: the target score is read under a key the record does not have
check_ht_result_WrongKey(c, state, fixture_id, score, t, delivered) ==
    LET unresolved_bet_data == get_unresolved_bet_data(c.st, fixture_id)
        bet_type == Get(unresolved_bet_data, "bet_type", None)
        bet_score == Get(unresolved_bet_data, "score", "N/A")
        outcome == IF unresolved_bet_data # EmptyDict /\ bet_type = BET_TYPE_REGULAR
                   THEN (IF score = bet_score THEN "win" ELSE "loss")
                   ELSE None
        c1 == IF unresolved_bet_data # EmptyDict /\ outcome # None
              THEN send_telegram(
                       move_to_resolved(c, fixture_id, unresolved_bet_data, outcome, t),
                       Key(fixture_id), outcome, score, delivered)
              ELSE c
    IN  IF ~is_bet_unresolved(c1.st, fixture_id)
        THEN delete_tracked_match(c1, fixture_id)
        ELSE c1

\* faulty variant: the tracking record is deleted without the check of line 435
check_ht_result_NoGuard(c, state, fixture_id, score, t, delivered) ==
    LET unresolved_bet_data == get_unresolved_bet_data(c.st, fixture_id)
        bet_type == Get(unresolved_bet_data, "bet_type", None)
        bet_score == Get(unresolved_bet_data, "score_36", "N/A")
        outcome == IF unresolved_bet_data # EmptyDict /\ bet_type = BET_TYPE_REGULAR
                   THEN (IF score = bet_score THEN "win" ELSE "loss")
                   ELSE None
        c1 == IF unresolved_bet_data # EmptyDict /\ outcome # None
              THEN send_telegram(
                       move_to_resolved(c, fixture_id, unresolved_bet_data, outcome, t),
                       Key(fixture_id), outcome, score, delivered)
              ELSE c
    IN  delete_tracked_match(c1, fixture_id)

\* faulty variant: the bet is moved only if the notification was delivered, as
\* the reconciler does at lines 627-628
check_ht_result_OnlyIfDelivered(c, state, fixture_id, score, t, delivered) ==
    LET unresolved_bet_data == get_unresolved_bet_data(c.st, fixture_id)
        bet_type == Get(unresolved_bet_data, "bet_type", None)
        bet_score == Get(unresolved_bet_data, "score_36", "N/A")
        outcome == IF unresolved_bet_data # EmptyDict /\ bet_type = BET_TYPE_REGULAR
                   THEN (IF score = bet_score THEN "win" ELSE "loss")
                   ELSE None
        c0 == IF unresolved_bet_data # EmptyDict /\ outcome # None
              THEN send_telegram(c, Key(fixture_id), outcome, score, delivered)
              ELSE c
        c1 == IF unresolved_bet_data # EmptyDict /\ outcome # None /\ delivered
              THEN move_to_resolved(c0, fixture_id, unresolved_bet_data, outcome, t)
              ELSE c0
    IN  IF ~is_bet_unresolved(c1.st, fixture_id)
        THEN delete_tracked_match(c1, fixture_id)
        ELSE c1

check_ht_result(c, state, fixture_id, score, t, delivered) ==
    LET current_score == score
        unresolved_bet_data == get_unresolved_bet_data(c.st, fixture_id)
        bet_type == Get(unresolved_bet_data, "bet_type", None)
        bet_score == Get(unresolved_bet_data, "score_36", "N/A")
        outcome == IF unresolved_bet_data # EmptyDict /\ bet_type = BET_TYPE_REGULAR
                   THEN (IF current_score = bet_score THEN "win" ELSE "loss")
                   ELSE None
        c1 == IF unresolved_bet_data # EmptyDict /\ outcome # None
              THEN send_telegram(
                       move_to_resolved(c, fixture_id, unresolved_bet_data, outcome, t),
                       Key(fixture_id), outcome, current_score, delivered)
              ELSE c
    IN  IF ~is_bet_unresolved(c1.st, fixture_id)
        THEN delete_tracked_match(c1, fixture_id)
        ELSE c1

\* faulty variant: the test for a finished match is made before the tests
\* for the halves
Normalize_FinishedFirst(description) ==
    LET status_description == Upper(description)
    IN  IF \/ Contains(<<"F","I","N","I","S","H","E","D">>, status_description)
           \/ Contains(<<"E","N","D","E","D">>, status_description)
           \/ Contains(<<"C","A","N","C","E","L","L","E","D">>, status_description)
        THEN <<"F","T">>
        ELSE IF Contains(<<"1","S","T"," ","H","A","L","F">>, status_description) THEN <<"1","H">>
        ELSE IF Contains(<<"2","N","D"," ","H","A","L","F">>, status_description) THEN <<"2","H">>
        ELSE IF Contains(<<"H","A","L","F","T","I","M","E">>, status_description) THEN STATUS_HALFTIME
        ELSE IF status_description \in STATUS_LIVE THEN status_description
        ELSE <<"N","/","A">>

\* lines 482-489: the canonical status of a status description
Normalize(description) ==
    LET status_description == Upper(description)
    IN  IF Contains(<<"1","S","T"," ","H","A","L","F">>, status_description) THEN <<"1","H">>
        ELSE IF Contains(<<"2","N","D"," ","H","A","L","F">>, status_description) THEN <<"2","H">>
        ELSE IF Contains(<<"H","A","L","F","T","I","M","E">>, status_description) THEN STATUS_HALFTIME
        ELSE IF \/ Contains(<<"F","I","N","I","S","H","E","D">>, status_description)
                \/ Contains(<<"E","N","D","E","D">>, status_description)
                \/ Contains(<<"C","A","N","C","E","L","L","E","D">>, status_description)
             THEN <<"F","T">>
        ELSE IF status_description \in STATUS_LIVE THEN status_description
        ELSE <<"N","/","A">>

\* f"{home_goals}-{away_goals}"
ScoreString(home_goals, away_goals) == ToString(home_goals) \o "-" \o ToString(away_goals)

DefaultState == [bet_placed_36 |-> FALSE, score_36 |-> None]

\* faulty variant: the status filter of line 495 is lost
IsIgnored_MinuteOnly(status, minute) ==
    minute = <<>> /\ Upper(status) # STATUS_HALFTIME

\* faulty variant: a snapshot without a minute is never evaluated
IsIgnored_AnyAbsentMinute(status, minute) ==
    \/ Upper(status) \notin STATUS_LIVE /\ Upper(status) # STATUS_HALFTIME
    \/ minute = <<>>

\* lines 495-496: the snapshot is not evaluated
IsIgnored(status, minute) ==
    \/ Upper(status) \notin STATUS_LIVE /\ Upper(status) # STATUS_HALFTIME
    \/ minute = <<>> /\ Upper(status) # STATUS_HALFTIME

\* faulty variant: '36_bet_placed' is not consulted
PlacementDue_IgnoringBetPlaced(status, minute, state) ==
    /\ Upper(status) = <<"1","H">>
    /\ minute # <<>>
    /\ Head(minute) \in MINUTES_REGULAR_BET

\* line 524
PlacementDue(status, minute, state) ==
    /\ Upper(status) = <<"1","H">>
    /\ minute # <<>>
    /\ Head(minute) \in MINUTES_REGULAR_BET
    /\ ~Get(state, "bet_placed_36", FALSE)

\* faulty variant: the halftime check is not tied to the HT status and is made
\* after a placement as well
process_live_match_NoElif(c, match, t, delivered) ==
    LET fixture_id == match.id
        minute == match.total_elapsed_minutes
        status == Normalize(match.status)
        score == ScoreString(match.home, match.away)
    IN  IF IsIgnored(status, minute) THEN c
        ELSE
          LET stored == get_tracked_match(c.st, fixture_id)
              state == IF stored # EmptyDict THEN stored ELSE DefaultState
              c0 == IF PlacementDue(status, minute, state)
                    THEN place_regular_bet(c, state, fixture_id, score, t, delivered)
                    ELSE c
              c1 == IF is_bet_unresolved(c0.st, fixture_id)
                    THEN check_ht_result(c0, state, fixture_id, score, t, delivered)
                    ELSE c0
          IN  IF status \in STATUS_FINISHED /\ ~is_bet_unresolved(c1.st, fixture_id)
              THEN delete_tracked_match(c1, fixture_id)
              ELSE c1

\* faulty variant: the defaults of lines 498-510 are written to the tracking
\* table before the branches
process_live_match_StoreDefaults(c, match, t, delivered) ==
    LET fixture_id == match.id
        minute == match.total_elapsed_minutes
        status == Normalize(match.status)
        score == ScoreString(match.home, match.away)
    IN  IF IsIgnored(status, minute) THEN c
        ELSE
          LET stored == get_tracked_match(c.st, fixture_id)
              state == IF stored # EmptyDict THEN stored ELSE DefaultState
              c0 == IF stored # EmptyDict THEN c ELSE update_tracked_match(c, fixture_id, state)
              c1 == IF PlacementDue(status, minute, state)
                    THEN place_regular_bet(c0, state, fixture_id, score, t, delivered)
                    ELSE IF /\ Upper(status) = STATUS_HALFTIME
                            /\ is_bet_unresolved(c0.st, fixture_id)
                         THEN check_ht_result(c0, state, fixture_id, score, t, delivered)
                         ELSE c0
          IN  IF status \in STATUS_FINISHED /\ ~is_bet_unresolved(c1.st, fixture_id)
              THEN delete_tracked_match(c1, fixture_id)
              ELSE c1

\* faulty variant: the halftime check is made only for a fixture whose
\* Tracking Record says that the bet was placed
process_live_match_NeedsTracking(c, match, t, delivered) ==
    LET fixture_id == match.id
        minute == match.total_elapsed_minutes
        status == Normalize(match.status)
        score == ScoreString(match.home, match.away)
    IN  IF IsIgnored(status, minute) THEN c
        ELSE
          LET stored == get_tracked_match(c.st, fixture_id)
              state == IF stored # EmptyDict THEN stored ELSE DefaultState
              c1 == IF PlacementDue(status, minute, state)
                    THEN place_regular_bet(c, state, fixture_id, score, t, delivered)
                    ELSE IF /\ Upper(status) = STATUS_HALFTIME
                            /\ Get(state, "bet_placed_36", FALSE)
                            /\ is_bet_unresolved(c.st, fixture_id)
                         THEN check_ht_result(c, state, fixture_id, score, t, delivered)
                         ELSE c
          IN  IF status \in STATUS_FINISHED /\ ~is_bet_unresolved(c1.st, fixture_id)
              THEN delete_tracked_match(c1, fixture_id)
              ELSE c1

\* a status description that is None and not a text
NoDescription == <<None>>

\* line 482: match.status.description is None, so .upper() raises AttributeError
Raises(match) == match.status = NoDescription

process_live_match(c, match, t, delivered) ==
    LET fixture_id == match.id
        minute == match.total_elapsed_minutes
        status == Normalize(match.status)
        score == ScoreString(match.home, match.away)
    IN  IF IsIgnored(status, minute) THEN c
        ELSE
          LET stored == get_tracked_match(c.st, fixture_id)
              state == IF stored # EmptyDict THEN stored ELSE DefaultState
              c1 == IF PlacementDue(status, minute, state)
                    THEN place_regular_bet(c, state, fixture_id, score, t, delivered)
                    ELSE IF /\ Upper(status) = STATUS_HALFTIME
                            /\ is_bet_unresolved(c.st, fixture_id)
                         THEN check_ht_result(c, state, fixture_id, score, t, delivered)
                         ELSE c
          IN  IF status \in STATUS_FINISHED /\ ~is_bet_unresolved(c1.st, fixture_id)
              THEN delete_tracked_match(c1, fixture_id)
              ELSE c1

(***************************************************************************)
(* Stale Bet Reconciler.  fetch maps each stale key to what                *)
(* robust_get_finished_match_details returns for it: [got |-> FALSE] (None) *)
(* or the event [got |-> TRUE, status, home, away].                         *)
(***************************************************************************)
\* the fixtures of the model
Fixtures == {100, 200}

\* the fixture a key of the tables stands for.  The reconciler hands the keys
\* themselves to the Store, whose str(match_id) gives a key back unchanged:
\* str(str(f)) = str(f)
FixtureOf(k) == CHOOSE f \in Fixtures : Key(f) = k

\* faulty variant: a fetched bet is resolved whatever the status of the event
\* and whether or not the notification is delivered
resolve_stale_bet_NoChecks(r, match_id, bet_info, match_data, t, delivered) ==
    LET c0 == Logged(r.c, [ev |-> "fetch", id |-> match_id])
    IN  IF ~match_data.got
        THEN [r EXCEPT !.c = c0]
        ELSE LET final_score == ScoreString(match_data.home, match_data.away)
                 c2 == send_telegram(c0, match_id, "win", final_score, delivered)
             IN  [c |-> delete_tracked_match(
                            move_to_resolved(c2, FixtureOf(match_id), bet_info, "win", t),
                            FixtureOf(match_id)),
                  successful_api_call |-> TRUE]

\* one iteration of the loop of lines 564-633; r = [c, successful_api_call]
resolve_stale_bet(r, match_id, bet_info, match_data, t, delivered) ==
    LET c0 == Logged(r.c, [ev |-> "fetch", id |-> match_id])
    IN  IF ~match_data.got
        THEN [r EXCEPT !.c = c0]
        ELSE
          LET status_description == Upper(match_data.status)
              final_score == ScoreString(match_data.home, match_data.away)
              \* line 585; the blocks that assigned an outcome are commented out
              outcome == None
              c1 == IF \/ Contains(<<"F","I","N","I","S","H","E","D">>, status_description)
                       \/ Contains(<<"E","N","D","E","D">>, status_description)
                    THEN IF outcome # None /\ outcome # "error"
                         THEN LET c2 == send_telegram(c0, match_id, outcome, final_score, delivered)
                              IN  IF delivered
                                  THEN delete_tracked_match(
                                           move_to_resolved(c2, FixtureOf(match_id), bet_info,
                                                            outcome, t),
                                           FixtureOf(match_id))
                                  ELSE c2
                         ELSE c0
                    ELSE c0
          IN  [c |-> c1, successful_api_call |-> TRUE]

\* faulty variant: the loop is left at the first bet whose fetch fails
RECURSIVE resolve_stale_bets_StopAtFailure(_, _, _, _, _)
resolve_stale_bets_StopAtFailure(r, stale_bets, fetch, t, delivered) ==
    IF DOMAIN stale_bets = {} THEN r
    ELSE LET match_id == CHOOSE k \in DOMAIN stale_bets : TRUE
             r1 == resolve_stale_bet(r, match_id, stale_bets[match_id], fetch[match_id],
                                     t, delivered)
         IN  IF ~fetch[match_id].got THEN r1
             ELSE resolve_stale_bets_StopAtFailure(r1, Pop(stale_bets, match_id),
                                                   fetch, t, delivered)

RECURSIVE resolve_stale_bets(_, _, _, _, _)
resolve_stale_bets(r, stale_bets, fetch, t, delivered) ==
    IF DOMAIN stale_bets = {} THEN r
    ELSE LET match_id == CHOOSE k \in DOMAIN stale_bets : TRUE
         IN  resolve_stale_bets(
                 resolve_stale_bet(r, match_id, stale_bets[match_id], fetch[match_id], t, delivered),
                 Pop(stale_bets, match_id), fetch, t, delivered)

\* faulty variant: the interval check is lost
RateGateOpen_Always(st, t) == TRUE

\* lines 547-559: TRUE when the external call may be made
RateGateOpen(st, t) ==
    LET last_call_str == get_last_api_call(st)
        has_dt == last_call_str # NoStamp /\ Parses(last_call_str)
        \* (utcnow() - last_call_dt).total_seconds(), in ticks
        ticks_since_last_call == t - strptime(last_call_str)
    IN  ~(has_dt /\ ticks_since_last_call < FIXTURE_API_INTERVAL * TicksPerSecond)

\* faulty variant: the last call is stamped whatever the fetches gave
check_and_resolve_stale_bets_AlwaysStamps(c, fetch, t, delivered) ==
    LET stale_bets == get_stale_unresolved_bets(c.st, BET_RESOLUTION_WAIT_MINUTES, t)
    IN  IF DOMAIN stale_bets = {} THEN c
        ELSE IF ~RateGateOpen(c.st, t) THEN c
        ELSE LET r == resolve_stale_bets([c |-> c, successful_api_call |-> FALSE],
                                         stale_bets, fetch, t, delivered)
             IN  update_last_api_call(r.c, t)

check_and_resolve_stale_bets(c, fetch, t, delivered) ==
    LET stale_bets == get_stale_unresolved_bets(c.st, BET_RESOLUTION_WAIT_MINUTES, t)
    IN  IF DOMAIN stale_bets = {} THEN c
        ELSE IF ~RateGateOpen(c.st, t) THEN c
        ELSE LET r == resolve_stale_bets([c |-> c, successful_api_call |-> FALSE],
                                         stale_bets, fetch, t, delivered)
             IN  IF r.successful_api_call THEN update_last_api_call(r.c, t) ELSE r.c

(***************************************************************************)
(* The environment: fixtures, the snapshots the Match Data Source can       *)
(* deliver, what a fetch of final details can return, clock advances.       *)
(***************************************************************************)
StatusTexts == { <<"1","s","t"," ","h","a","l","f">>,
                 <<"H","a","l","f","t","i","m","e">>,
                 <<"2","n","d"," ","h","a","l","f">>,
                 <<"E","n","d","e","d">>,
                 <<"N","o","t"," ","s","t","a","r","t","e","d">> }

\* total_elapsed_minutes: <<>> is None
Minutes == { <<>>, <<10>>, <<36>>, <<37>> }

Goals == { <<1, 1>>, <<2, 2>>, <<2, 1>> }

\* every combination for the first fixture; for the other fixtures the
\* snapshot that places a bet
Snapshots ==
    { [id |-> 100, status |-> s, total_elapsed_minutes |-> m, home |-> g[1], away |-> g[2]] :
        s \in StatusTexts, m \in Minutes, g \in Goals }
    \cup
    { [id |-> f, status |-> <<"1","s","t"," ","h","a","l","f">>,
       total_elapsed_minutes |-> <<36>>, home |-> 1, away |-> 1] : f \in Fixtures \ {100} }

FetchResults ==
    { [got |-> FALSE] } \cup
    { [got |-> TRUE, status |-> s, home |-> g[1], away |-> g[2]] :
        s \in { <<"E","n","d","e","d">>, <<"2","n","d"," ","h","a","l","f">> },
        g \in { <<1, 1>>, <<2, 1>> } }

\* the wait threshold exactly, and one tick more
Jumps == { BET_RESOLUTION_WAIT_MINUTES * 60 * TicksPerSecond,
           BET_RESOLUTION_WAIT_MINUTES * 60 * TicksPerSecond + 1 }

(***************************************************************************)
(* State machine.  live holds the snapshot handed to process_live_match     *)
(* and not yet evaluated; last describes the handler that has just run:     *)
(* its input, the store before it, and its log.                             *)
(***************************************************************************)
Store == [tracked |-> tracked, unresolved |-> unresolved,
          resolved |-> resolved, config |-> config]

NoOp == [op |-> "none"]

\* values of pc, faults and cycle where the steps of the file writes, the
\* faults and the main loop are not followed
IdlePc == [at |-> "idle"]
NoFaults == [write |-> 0, damage |-> 0]
NoCycle == [at |-> "none"]
\* SOFASCORE_CLIENT once initialize_sofascore_client has succeeded, and the
\* environment with TELEGRAM_TOKEN and TELEGRAM_CHAT_ID set
Client == "SofascoreClient"
Credentials == [TELEGRAM_TOKEN |-> "token", TELEGRAM_CHAT_ID |-> "chat"]

Idle == live = <<>> /\ last.op = "none"

SetStore(st) ==
    /\ tracked' = st.tracked
    /\ unresolved' = st.unresolved
    /\ resolved' = st.resolved
    /\ config' = st.config

\* LocalFileManager() with no file on disk: every table is {}
Init ==
    /\ tracked = EmptyDict
    /\ unresolved = EmptyDict
    /\ resolved = EmptyDict
    /\ config = EmptyDict
    /\ now = 0
    /\ ticks = 0
    /\ live = <<>>
    /\ last = NoOp
    /\ disk = [f \in FileNames |-> MissingFile]
    /\ pc = IdlePc
    /\ faults = NoFaults
    /\ cycle = NoCycle
    /\ SOFASCORE_CLIENT = Client
    /\ telegram = Credentials

\* run_bot_cycle: the loop over get_live_matches() reaches the snapshot m
Poll(m) ==
    /\ Idle
    /\ live' = <<m>>
    /\ UNCHANGED <<tracked, unresolved, resolved, config, now, ticks, last>>
    /\ UNCHANGED <<disk, pc, faults, cycle, SOFASCORE_CLIENT, telegram>>

\* the next poll delivers the snapshot just evaluated once more, unchanged
Repoll ==
    /\ live = <<>>
    /\ last.op = "process_live_match"
    /\ last.rep < MaxRepeats
    /\ live' = <<last.match>>
    /\ UNCHANGED <<tracked, unresolved, resolved, config, now, ticks, last>>
    /\ UNCHANGED <<disk, pc, faults, cycle, SOFASCORE_CLIENT, telegram>>

Evaluate(delivered) ==
    /\ live # <<>>
    /\ LET c == process_live_match(Context(Store), Head(live), now, delivered)
       IN  /\ SetStore(c.st)
           /\ last' = [op |-> "process_live_match",
                       match |-> Head(live),
                       pre |-> Store,
                       log |-> c.log,
                       rep |-> IF last.op = "process_live_match" THEN last.rep + 1 ELSE 0]
           /\ disk' = Saved(disk, c)
    /\ live' = <<>>
    /\ UNCHANGED <<now, ticks, pc, faults, cycle, SOFASCORE_CLIENT, telegram>>

\* fetch: what the Match Data Source returns for each fixture with an
\* unresolved bet, should the reconciler ask for it
Reconcile(fetch, delivered) ==
    /\ Idle
    /\ LET c == check_and_resolve_stale_bets(Context(Store), fetch, now, delivered)
       IN  /\ SetStore(c.st)
           /\ last' = [op |-> "check_and_resolve_stale_bets",
                       fetch |-> fetch,
                       delivered |-> delivered,
                       pre |-> Store,
                       log |-> c.log]
           /\ disk' = Saved(disk, c)
    /\ UNCHANGED <<now, ticks, live, pc, faults, cycle, SOFASCORE_CLIENT, telegram>>

\* the handler has returned
Return ==
    /\ live = <<>>
    /\ last.op # "none"
    /\ last' = NoOp
    /\ UNCHANGED <<tracked, unresolved, resolved, config, now, ticks, live>>
    /\ UNCHANGED <<disk, pc, faults, cycle, SOFASCORE_CLIENT, telegram>>

\* time.sleep and the time the calls take
Tick(d) ==
    /\ Idle
    /\ ticks < MaxTicks
    /\ now' = now + d
    /\ ticks' = ticks + 1
    /\ UNCHANGED <<tracked, unresolved, resolved, config, live, last>>
    /\ UNCHANGED <<disk, pc, faults, cycle, SOFASCORE_CLIENT, telegram>>

Next ==
    \/ \E m \in Snapshots : Poll(m)
    \/ Repoll
    \/ \E delivered \in BOOLEAN : Evaluate(delivered)
    \/ \E fetch \in [DOMAIN unresolved -> FetchResults], delivered \in BOOLEAN : Reconcile(fetch, delivered)
    \/ Return
    \/ \E d \in Jumps : Tick(d)

Spec == Init /\ [][Next]_vars

(***************************************************************************)
(* Start from durable files.  LocalFileManager() loads whatever the four    *)
(* files hold (_load_data); the files considered here were written a wait   *)
(* threshold before the start and hold a bet of a type other than           *)
(* 'regular', as the revisions with the 80' bet wrote them (the commented   *)
(* blocks of lines 43-58 and 438-473).                                      *)
(***************************************************************************)
WaitTicks == BET_RESOLUTION_WAIT_MINUTES * 60 * TicksPerSecond
IntervalTicks == FIXTURE_API_INTERVAL * TicksPerSecond

LegacyBet(id) == [placed_at |-> strftime(0), bet_type |-> "80_minute", score_80 |-> "1-1",
                  fixture_id |-> id, sofascored_id |-> id]
RegularBet(id) == [placed_at |-> strftime(0), bet_type |-> BET_TYPE_REGULAR, score_36 |-> "1-1",
                   fixture_id |-> id, sofascored_id |-> id]

LoadedUnresolved ==
    { Put(EmptyDict, Key(100), LegacyBet(100)),
      Put(Put(EmptyDict, Key(100), LegacyBet(100)), Key(200), LegacyBet(200)),
      Put(Put(EmptyDict, Key(100), LegacyBet(100)), Key(200), RegularBet(200)) }

LoadedTracked ==
    { EmptyDict,
      Put(Put(EmptyDict, Key(100), [bet_placed_36 |-> FALSE, score_36 |-> None]),
          Key(200), [bet_placed_36 |-> TRUE, score_36 |-> "1-1"]) }

ConfigWith(stamp) ==
    Put(EmptyDict, "api_tracker", Put(EmptyDict, "last_resolution_api_call", stamp))

\* no last call, an unparseable one, one exactly the interval before the
\* earliest start, one a second later
LoadedConfig ==
    { EmptyDict,
      ConfigWith(BadStamp),
      ConfigWith(strftime(WaitTicks - IntervalTicks)),
      ConfigWith(strftime(WaitTicks - IntervalTicks + TicksPerSecond)) }

InitLoaded ==
    /\ tracked \in LoadedTracked
    /\ unresolved \in LoadedUnresolved
    /\ resolved = EmptyDict
    /\ config \in LoadedConfig
    /\ now \in {WaitTicks, WaitTicks + 1}
    /\ ticks = 0
    /\ live = <<>>
    /\ last = NoOp
    /\ disk = save_all(Store)
    /\ pc = IdlePc
    /\ faults = NoFaults
    /\ cycle = NoCycle
    /\ SOFASCORE_CLIENT = Client
    /\ telegram = Credentials

RestartSnapshots ==
    { [id |-> 100, status |-> s, total_elapsed_minutes |-> <<36>>, home |-> 1, away |-> 1] :
        s \in { <<"1","s","t"," ","h","a","l","f">>,
                <<"H","a","l","f","t","i","m","e">>,
                <<"E","n","d","e","d">> } }
    \cup
    { [id |-> 200, status |-> <<"H","a","l","f","t","i","m","e">>,
       total_elapsed_minutes |-> <<>>, home |-> h, away |-> 1] : h \in {1, 2} }

NextLoaded ==
    \/ \E m \in RestartSnapshots : Poll(m)
    \/ Repoll
    \/ \E delivered \in BOOLEAN : Evaluate(delivered)
    \/ \E fetch \in [DOMAIN unresolved -> FetchResults], delivered \in BOOLEAN : Reconcile(fetch, delivered)
    \/ Return
    \/ \E d \in Jumps : Tick(d)

SpecLoaded == InitLoaded /\ [][NextLoaded]_vars

(***************************************************************************)
(* The tables and their files, step by step.  A handler runs as the         *)
(* sequence of its Store operations; each operation changes the table in    *)
(* memory and then save_all writes the four files one after the other.  The *)
(* process can stop at any point (it is killed, the machine goes down); the *)
(* memory is lost and the files stay as they are.  While it is down a file  *)
(* can be removed or damaged.  Start is LocalFileManager() on the files.    *)
(*                                                                         *)
(* pc.at: "idle" (between handlers), "call" (in a handler, before its       *)
(* first Store operation), "save" (in a Store operation, pc.n files         *)
(* written, pc.failed the files whose write raised IOError), "returned" (the *)
(* Store operation has returned), "stopped", "failed" (LocalFileManager()   *)
(* raised, initialize_bot_services gave up).                                *)
(***************************************************************************)
DurableSnapshots ==
    { [id |-> 100, status |-> s, total_elapsed_minutes |-> <<36>>, home |-> g[1], away |-> g[2]] :
        s \in { <<"1","s","t"," ","h","a","l","f">>, <<"H","a","l","f","t","i","m","e">> },
        g \in { <<1, 1>>, <<2, 1>> } }

SaveOutcomes == {"ok", "open_fails", "write_fails"}

Damages == {"missing", "unparseable", "undecodable"}

NoCall == [ev |-> "none", id |-> None]

EmptyStore == [tracked |-> EmptyDict, unresolved |-> EmptyDict,
               resolved |-> EmptyDict, config |-> EmptyDict]

\* the first start, with no file on disk
InitDurable ==
    /\ tracked = EmptyDict
    /\ unresolved = EmptyDict
    /\ resolved = EmptyDict
    /\ config = EmptyDict
    /\ now = 0
    /\ ticks = 0
    /\ live = <<>>
    /\ last = NoOp
    /\ disk = [f \in FileNames |-> MissingFile]
    /\ pc = IdlePc
    /\ faults = NoFaults
    /\ cycle = NoCycle
    /\ SOFASCORE_CLIENT = Client
    /\ telegram = Credentials

\* process_live_match(m) is entered; what it will do is fixed by the tables in
\* memory and the snapshot
BeginEvaluate(m, delivered) ==
    /\ pc.at = "idle"
    /\ LET c == process_live_match(Context(Store), m, now, delivered)
           todo == MutationsOf(c)
       IN  /\ last' = [op |-> "process_live_match", match |-> m, pre |-> Store,
                       log |-> c.log, rep |-> 0]
           /\ pc' = IF todo = <<>> THEN IdlePc ELSE [at |-> "call", todo |-> todo, n |-> 0, failed |-> {}]
    /\ UNCHANGED <<tracked, unresolved, resolved, config, now, ticks, live, disk, faults, cycle, SOFASCORE_CLIENT, telegram>>

\* the next Store operation changes its table in memory
ApplyMutation ==
    /\ pc.at \in {"call", "returned"}
    /\ pc.todo # <<>>
    /\ SetStore(Head(pc.todo).st)
    /\ pc' = [pc EXCEPT !.at = "save", !.n = 0, !.failed = {}]
    /\ UNCHANGED <<now, ticks, live, last, disk, faults, cycle, SOFASCORE_CLIENT, telegram>>

\* save_all: the next _save_data; after the fourth the Store operation returns
SaveFile(outcome) ==
    /\ pc.at = "save"
    /\ pc.n < Len(Files)
    /\ outcome # "ok" => faults.write < MaxFaults
    /\ LET f == Files[pc.n + 1]
           failed == IF outcome = "ok" THEN pc.failed ELSE pc.failed \cup {f}
       IN  /\ disk' = [disk EXCEPT ![f] = save_data(@, Store[f], outcome)]
           /\ pc' = IF pc.n + 1 = Len(Files)
                    THEN [at |-> "returned", todo |-> Tail(pc.todo), n |-> 0, failed |-> failed]
                    ELSE [pc EXCEPT !.n = @ + 1, !.failed = failed]
    /\ faults' = IF outcome = "ok" THEN faults ELSE [faults EXCEPT !.write = @ + 1]
    /\ UNCHANGED <<tracked, unresolved, resolved, config, now, ticks, live, last, cycle, SOFASCORE_CLIENT, telegram>>

\* the handler returns after its last Store operation
Finish ==
    /\ pc.at = "returned"
    /\ pc.todo = <<>>
    /\ pc' = IdlePc
    /\ UNCHANGED <<tracked, unresolved, resolved, config, now, ticks, live, last, disk, faults, cycle, SOFASCORE_CLIENT, telegram>>

\* the process stops; last keeps the handler and the Store operation it was in
Stop ==
    /\ pc.at \in {"idle", "call", "save", "returned"}
    /\ SetStore(EmptyStore)
    /\ last' = [op |-> "stop",
                handler |-> IF pc.at = "idle" THEN NoOp ELSE last,
                call |-> IF pc.at = "save"
                         THEN [ev |-> Head(pc.todo).ev, id |-> Head(pc.todo).id]
                         ELSE NoCall]
    /\ pc' = [at |-> "stopped"]
    /\ UNCHANGED <<now, ticks, live, disk, faults, cycle, SOFASCORE_CLIENT, telegram>>

\* while the process is down a file is removed or damaged
Damage(f, how) ==
    /\ pc.at = "stopped"
    /\ faults.damage < MaxFaults
    /\ disk[f].kind # how
    /\ disk' = [disk EXCEPT ![f] = [kind |-> how]]
    /\ faults' = [faults EXCEPT !.damage = @ + 1]
    /\ UNCHANGED <<tracked, unresolved, resolved, config, now, ticks, live, last, pc, cycle, SOFASCORE_CLIENT, telegram>>

\* LocalFileManager() in initialize_bot_services (lines 248-252)
Start ==
    /\ pc.at = "stopped"
    /\ IF \E f \in FileNames : LoadRaises(disk[f])
       THEN /\ pc' = [at |-> "failed"]
            /\ UNCHANGED <<tracked, unresolved, resolved, config>>
       ELSE /\ pc' = IdlePc
            /\ SetStore([f \in FileNames |-> load_data(disk[f])])
    /\ last' = [last EXCEPT !.op = "start"]
    /\ UNCHANGED <<now, ticks, live, disk, faults, cycle, SOFASCORE_CLIENT, telegram>>

NextDurable ==
    \/ \E m \in DurableSnapshots, delivered \in BOOLEAN : BeginEvaluate(m, delivered)
    \/ ApplyMutation
    \/ \E outcome \in SaveOutcomes : SaveFile(outcome)
    \/ Finish
    \/ Stop
    \/ \E f \in FileNames, how \in Damages : Damage(f, how)
    \/ Start

SpecDurable == InitDurable /\ [][NextDurable]_vars

(***************************************************************************)
(* The Match Data Source client and the Notifier, call by call.  The       *)
(* SofascoreClient and the Telegram API are outside the program: what a     *)
(* call to them does is an input.  An answer of get_event is                *)
(* [kind |-> "raises"], [kind |-> "none"] or an event; a response of        *)
(* requests.post is "200", another status code, or "timeout" (a             *)
(* RequestException).                                                       *)
(***************************************************************************)
MAX_FETCH_RETRIES == 3
\* default of the parameter of send_telegram
max_retries == 3

\* the loop of lines 226-239 from the given attempt on; run holds the posts
\* made and the sleeps taken so far
RECURSIVE send_attempts(_, _, _)
send_attempts(attempt, responses, run) ==
    IF attempt >= max_retries
    THEN [returns |-> FALSE, posts |-> run.posts, sleeps |-> run.sleeps]
    ELSE LET response == responses[attempt + 1]
             posts == Append(run.posts, response)
         IN  IF response = "200"
             THEN [returns |-> TRUE, posts |-> posts, sleeps |-> run.sleeps]
             ELSE send_attempts(attempt + 1, responses,
                                [posts |-> posts,
                                 sleeps |-> IF attempt < max_retries - 1
                                            THEN Append(run.sleeps, 2 ^ attempt)
                                            ELSE run.sleeps])

\* faulty variant: every response is asked for, also after a 200
telegram_delivery_NoStop(env, responses) ==
    IF env.TELEGRAM_TOKEN = None \/ env.TELEGRAM_CHAT_ID = None
    THEN [returns |-> FALSE, posts |-> <<>>, sleeps |-> <<>>]
    ELSE [returns |-> \E i \in DOMAIN responses : responses[i] = "200",
          posts |-> responses, sleeps |-> <<1, 2>>]

\* send_telegram by its posts: what it returns, the responses of the posts it
\* made and the seconds it slept
telegram_delivery(env, responses) ==
    IF env.TELEGRAM_TOKEN = None \/ env.TELEGRAM_CHAT_ID = None
    THEN [returns |-> FALSE, posts |-> <<>>, sleeps |-> <<>>]
    ELSE send_attempts(0, responses, [posts |-> <<>>, sleeps |-> <<>>])

\* initialize_sofascore_client: the client afterwards; ok tells whether
\* SofascoreClient() and initialize() succeed
initialize_sofascore_client(client, ok) ==
    IF client # None THEN client
    ELSE IF ok THEN Client ELSE None

NotFetched == [got |-> FALSE]

\* get_finished_match_details: None (NotFetched) without a call when there is
\* no client, when get_event raises, returns nothing or returns another event
get_finished_match_details(client, sofascored_id, answer) ==
    IF client = None THEN NotFetched
    ELSE IF answer.kind = "event" /\ answer.id = sofascored_id
         THEN [got |-> TRUE, status |-> answer.status, home |-> answer.home, away |-> answer.away]
         ELSE NotFetched

\* a run of robust_get_finished_match_details: its result so far, the client,
\* and the trace of the calls made and the sleeps taken
Traced(run, e) == [run EXCEPT !.trace = Append(@, e)]

\* get_finished_match_details within a run, as its n-th fetch: the call of
\* get_event, if one is made, is traced
fetch_attempt(run, sofascored_id, plan, n) ==
    LET result == get_finished_match_details(run.client, sofascored_id, plan.answers[n])
        run1 == IF run.client = None THEN run ELSE Traced(run, [ev |-> "get_event", n |-> n])
    IN  [run1 EXCEPT !.result = result]

\* lines 333-343: the client is closed and dropped, a new one is created and
\* the fetch is tried a last time; restart is "ok", "init_fails" or
\* "close_raises" (the except of line 342 then leaves the old client in place)
client_restart(run, sofascored_id, plan) ==
    IF run.client # None /\ plan.restart = "close_raises"
    THEN Traced(run, [ev |-> "close"])
    ELSE LET closed == IF run.client # None
                       THEN [Traced(run, [ev |-> "close"]) EXCEPT !.client = None]
                       ELSE run
             created == [Traced(closed, [ev |-> "initialize"]) EXCEPT
                            !.client = initialize_sofascore_client(closed.client,
                                                                  plan.restart = "ok")]
         IN  fetch_attempt(created, sofascored_id, plan, MAX_FETCH_RETRIES + 1)

\* the loop of lines 324-349 from the given attempt on
RECURSIVE robust_attempts(_, _, _, _)
robust_attempts(attempt, sofascored_id, plan, run) ==
    IF attempt >= MAX_FETCH_RETRIES THEN [run EXCEPT !.result = NotFetched]
    ELSE LET run1 == fetch_attempt(run, sofascored_id, plan, attempt + 1)
         IN  IF run1.result.got THEN run1
             ELSE LET run2 == IF attempt = MAX_FETCH_RETRIES - 1
                              THEN client_restart(run1, sofascored_id, plan)
                              ELSE run1
                  IN  IF run2.result.got THEN run2
                      ELSE robust_attempts(attempt + 1, sofascored_id, plan,
                                           Traced(run2, [ev |-> "sleep", s |-> 2 ^ attempt]))

\* faulty variant: the client is re-created before the first attempt as well
robust_get_finished_match_details_RestartFirst(client, sofascored_id, plan) ==
    robust_attempts(0, sofascored_id, plan,
                    [client_restart([result |-> NotFetched, client |-> client, trace |-> <<>>],
                                    sofascored_id, plan)
                     EXCEPT !.result = NotFetched])

\* plan.answers[i] is what get_event does at the i-th fetch of the run (the
\* last one being the fetch after the restart), plan.restart what the restart
\* does
robust_get_finished_match_details(client, sofascored_id, plan) ==
    robust_attempts(0, sofascored_id, plan,
                    [result |-> NotFetched, client |-> client, trace |-> <<>>])

\* the fetches of the loop of lines 564-567, in the order of the loop: the
\* run for each stale bet and the client the loop leaves
RECURSIVE robust_fetches(_, _, _, _)
robust_fetches(client, stale_bets, plans, runs) ==
    IF DOMAIN stale_bets = {} THEN [client |-> client, runs |-> runs]
    ELSE LET match_id == CHOOSE k \in DOMAIN stale_bets : TRUE
             \* the bets of the tables carry 'sofascored_id' as an integer
             sofascored_id == stale_bets[match_id].sofascored_id
             run == robust_get_finished_match_details(client, sofascored_id, plans[match_id])
         IN  robust_fetches(run.client, Pop(stale_bets, match_id), plans,
                            Put(runs, match_id, run))

\* faulty variant: when get_events raises, a list fetched earlier is returned
get_live_matches_OldList(client, answer) ==
    IF client = None THEN <<>>
    ELSE IF answer.ok THEN answer.events
    ELSE << [id |-> 100, status |-> <<"1","s","t"," ","h","a","l","f">>,
             total_elapsed_minutes |-> <<36>>, home |-> 1, away |-> 1] >>

\* get_live_matches: [] when there is no client or get_events raises
get_live_matches(client, answer) ==
    IF client = None THEN <<>>
    ELSE IF answer.ok THEN answer.events ELSE <<>>

(***************************************************************************)
(* The main loop, cycle by cycle (run_bot_cycle and __main__).  A cycle     *)
(* evaluates the live matches in the order get_live_matches() returned      *)
(* them, then runs the reconciler, then sleeps SLEEP_TIME.  An exception    *)
(* that process_live_match raises is caught nowhere in run_bot_cycle: it    *)
(* reaches the except of line 664, the finally runs shutdown_bot and the    *)
(* process ends.                                                            *)
(*                                                                         *)
(* cycle.at: "sleep", "evaluate" (cycle.todo are the matches still to       *)
(* evaluate), "done" (the cycle has completed), "terminated"; cycle.notes   *)
(* are the fixtures notified in the cycle, one entry per send.              *)
(***************************************************************************)
FirstHalf36(f) == [id |-> f, status |-> <<"1","s","t"," ","h","a","l","f">>,
                   total_elapsed_minutes |-> <<36>>, home |-> 1, away |-> 1]
Halftime(f) == [id |-> f, status |-> <<"H","a","l","f","t","i","m","e">>,
                total_elapsed_minutes |-> <<>>, home |-> 1, away |-> 1]
\* an event without a status description
Malformed(f) == [id |-> f, status |-> NoDescription,
                 total_elapsed_minutes |-> <<36>>, home |-> 1, away |-> 1]

CycleSnapshots ==
    { FirstHalf36(f) : f \in Fixtures } \cup { Halftime(f) : f \in Fixtures } \cup { Malformed(100) }

\* what get_events(live=True) can return: no match, one match, or two matches
\* of different fixtures
LiveLists ==
    { <<>> } \cup { <<m>> : m \in CycleSnapshots } \cup
    { q \in CycleSnapshots \X CycleSnapshots : q[1].id # q[2].id }

\* get_events(live=True) raises, or returns a list
LiveAnswers == { [ok |-> FALSE] } \cup { [ok |-> TRUE, events |-> ms] : ms \in LiveLists }

\* answers of get_event(f)
GetEventRaises == [kind |-> "raises"]
GetEventNone == [kind |-> "none"]
Event(f, status) == [kind |-> "event", id |-> f, status |-> status, home |-> 1, away |-> 1]
Ended(f) == Event(f, <<"E","n","d","e","d">>)

\* the fetch succeeds at the first, second or third attempt, or after the
\* restart; it fails with the restart failing in either way; it never
\* succeeds (an exception, no event, the event of another fixture); the event
\* is not finished; the event has no status description
PlansFor(f) ==
    { [answers |-> <<Ended(f), Ended(f), Ended(f), Ended(f)>>, restart |-> "ok"],
      [answers |-> <<GetEventRaises, Ended(f), Ended(f), Ended(f)>>, restart |-> "ok"],
      [answers |-> <<GetEventRaises, GetEventNone, Ended(f), Ended(f)>>, restart |-> "ok"],
      [answers |-> <<GetEventRaises, GetEventRaises, GetEventRaises, Ended(f)>>, restart |-> "ok"],
      [answers |-> <<GetEventRaises, GetEventRaises, GetEventRaises, Ended(f)>>, restart |-> "init_fails"],
      [answers |-> <<GetEventRaises, GetEventRaises, GetEventRaises, Ended(f)>>, restart |-> "close_raises"],
      [answers |-> <<GetEventRaises, GetEventNone, Ended(f + 1), GetEventRaises>>, restart |-> "ok"],
      [answers |-> [i \in 1..4 |-> Event(f, <<"2","n","d"," ","h","a","l","f">>)], restart |-> "ok"],
      [answers |-> [i \in 1..4 |-> Event(f, NoDescription)], restart |-> "ok"] }

\* a plan for every bet the reconciler fetches
Plans(bets) ==
    { plans \in [DOMAIN bets -> UNION { PlansFor(f) : f \in Fixtures }] :
        \A k \in DOMAIN bets : plans[k] \in PlansFor(bets[k].sofascored_id) }

\* the responses of the Telegram API to the posts of one send_telegram, were
\* all of them made: the first, the second, the third or none is a 200
Responses ==
    { <<"200", "200", "500">>,
      <<"500", "200", "200">>,
      <<"timeout", "500", "200">>,
      <<"500", "timeout", "500">> }

\* for a run of the reconciler: delivered at the first post, or not at all
ReconcilerResponses ==
    { <<"200", "200", "500">>, <<"500", "timeout", "500">> }

\* environments with and without the Telegram credentials
Environments ==
    { Credentials, [Credentials EXCEPT !.TELEGRAM_CHAT_ID = None] }

Sends(log) == SelectSeq(log, LAMBDA e : e.ev = "send_telegram")
Notified(log) == [i \in DOMAIN Sends(log) |-> Sends(log)[i].id]

NoSend == [returns |-> FALSE, posts |-> <<>>, sleeps |-> <<>>, responses |-> <<>>, sent |-> FALSE]
\* the send_telegram call of a handler, if its log has one
SendOf(log, delivery, responses) ==
    IF Sends(log) = <<>> THEN NoSend
    ELSE [returns |-> delivery.returns, posts |-> delivery.posts, sleeps |-> delivery.sleeps,
          responses |-> responses, sent |-> TRUE]

\* lines 543-564: the bets check_and_resolve_stale_bets fetches: the stale
\* ones, if the rate gate is open
FetchedBets(st, t) ==
    LET stale_bets == get_stale_unresolved_bets(st, BET_RESOLUTION_WAIT_MINUTES, t)
    IN  IF RateGateOpen(st, t) THEN stale_bets ELSE EmptyDict

\* the fetches check_and_resolve_stale_bets makes
reconciler_fetches(st, client, plans, t) ==
    robust_fetches(client, FetchedBets(st, t), plans, EmptyDict)

\* what robust_get_finished_match_details has returned for each bet
ResultsOf(st, runs) ==
    [k \in DOMAIN st.unresolved |-> IF k \in DOMAIN runs THEN runs[k].result ELSE NotFetched]

\* line 575: match_data.status.description is None for a fetched event
ReconcilerRaises(runs) ==
    \E k \in DOMAIN runs : runs[k].result.got /\ runs[k].result.status = NoDescription

\* started on files with no bet, or with bets of an earlier revision
InitCycle ==
    /\ tracked = EmptyDict
    /\ unresolved \in {EmptyDict} \cup LoadedUnresolved
    /\ resolved = EmptyDict
    /\ config = EmptyDict
    /\ now = WaitTicks + 1
    /\ ticks = 0
    /\ live = <<>>
    /\ last = NoOp
    /\ disk = save_all(Store)
    /\ pc = IdlePc
    /\ faults = NoFaults
    /\ cycle = [at |-> "sleep", todo |-> <<>>, notes |-> <<>>, live |-> "none", reconciled |-> 0]
    /\ SOFASCORE_CLIENT = Client
    /\ telegram \in Environments

\* run_bot_cycle is entered with a client and get_live_matches() is called
StartCycle(answer) ==
    /\ cycle.at = "sleep"
    /\ ticks < MaxCycles
    /\ SOFASCORE_CLIENT # None
    /\ ticks' = ticks + 1
    /\ cycle' = [at |-> "evaluate", todo |-> get_live_matches(SOFASCORE_CLIENT, answer),
                 notes |-> <<>>, live |-> IF answer.ok THEN "fetched" ELSE "failed",
                 reconciled |-> 0]
    /\ last' = NoOp
    /\ UNCHANGED <<tracked, unresolved, resolved, config, now, live, disk, pc, faults>>
    /\ UNCHANGED <<SOFASCORE_CLIENT, telegram>>

\* lines 642-644: run_bot_cycle is entered without a client and returns
SkipCycle ==
    /\ cycle.at = "sleep"
    /\ ticks < MaxCycles
    /\ SOFASCORE_CLIENT = None
    /\ ticks' = ticks + 1
    /\ cycle' = [at |-> "done", todo |-> <<>>, notes |-> <<>>, live |-> "none", reconciled |-> 0]
    /\ last' = [op |-> "skipped"]
    /\ UNCHANGED <<tracked, unresolved, resolved, config, now, live, disk, pc, faults>>
    /\ UNCHANGED <<SOFASCORE_CLIENT, telegram>>

\* the loop of lines 648-649 evaluates the next match
EvaluateNext(responses) ==
    /\ cycle.at = "evaluate"
    /\ cycle.todo # <<>>
    /\ ~Raises(Head(cycle.todo))
    /\ LET delivery == telegram_delivery(telegram, responses)
           c == process_live_match(Context(Store), Head(cycle.todo), now, delivery.returns)
       IN  /\ SetStore(c.st)
           /\ last' = [op |-> "process_live_match", match |-> Head(cycle.todo),
                       pre |-> Store, log |-> c.log, rep |-> 0,
                       send |-> SendOf(c.log, delivery, responses)]
           /\ disk' = Saved(disk, c)
           /\ cycle' = [cycle EXCEPT !.todo = Tail(@), !.notes = @ \o Notified(c.log)]
    /\ UNCHANGED <<now, ticks, live, pc, faults, SOFASCORE_CLIENT, telegram>>

\* process_live_match raises: the exception leaves the loop and run_bot_cycle,
\* line 664 catches it, shutdown_bot saves the tables and the process ends
EvaluationRaises ==
    /\ cycle.at = "evaluate"
    /\ cycle.todo # <<>>
    /\ Raises(Head(cycle.todo))
    /\ last' = [op |-> "raised", match |-> Head(cycle.todo), pre |-> Store, log |-> <<>>]
    /\ disk' = save_all(Store)
    /\ cycle' = [cycle EXCEPT !.at = "terminated"]
    /\ UNCHANGED <<tracked, unresolved, resolved, config, now, ticks, live, pc, faults>>
    /\ UNCHANGED <<SOFASCORE_CLIENT, telegram>>

\* line 651, after the last match: check_and_resolve_stale_bets returns
ReconcileCycle(plans, responses) ==
    /\ cycle.at = "evaluate"
    /\ cycle.todo = <<>>
    /\ LET fetched == reconciler_fetches(Store, SOFASCORE_CLIENT, plans, now)
           fetch == ResultsOf(Store, fetched.runs)
           delivery == telegram_delivery(telegram, responses)
           c == check_and_resolve_stale_bets(Context(Store), fetch, now, delivery.returns)
       IN  /\ ~ReconcilerRaises(fetched.runs)
           /\ SetStore(c.st)
           /\ last' = [op |-> "check_and_resolve_stale_bets", fetch |-> fetch,
                       delivered |-> delivery.returns, pre |-> Store, log |-> c.log,
                       runs |-> fetched.runs, plans |-> plans, client |-> SOFASCORE_CLIENT,
                       send |-> SendOf(c.log, delivery, responses)]
           /\ disk' = Saved(disk, c)
           /\ cycle' = [cycle EXCEPT !.at = "done", !.notes = @ \o Notified(c.log),
                                     !.reconciled = @ + 1]
           /\ SOFASCORE_CLIENT' = fetched.client
    /\ UNCHANGED <<now, ticks, live, pc, faults, telegram>>

\* line 575 raises for a fetched event: as for process_live_match, the
\* exception ends the main loop and shutdown_bot saves the tables
ReconcileRaises(plans) ==
    /\ cycle.at = "evaluate"
    /\ cycle.todo = <<>>
    /\ LET fetched == reconciler_fetches(Store, SOFASCORE_CLIENT, plans, now)
       IN  /\ ReconcilerRaises(fetched.runs)
           /\ last' = [op |-> "reconciler_raised", pre |-> Store, log |-> <<>>]
    /\ disk' = save_all(Store)
    /\ cycle' = [cycle EXCEPT !.at = "terminated"]
    /\ UNCHANGED <<tracked, unresolved, resolved, config, now, ticks, live, pc, faults>>
    /\ UNCHANGED <<SOFASCORE_CLIENT, telegram>>

\* line 661
SleepCycle ==
    /\ cycle.at = "done"
    /\ now' = now + SLEEP_TIME * TicksPerSecond
    /\ cycle' = [cycle EXCEPT !.at = "sleep"]
    /\ UNCHANGED <<tracked, unresolved, resolved, config, ticks, live, last, disk, pc, faults>>
    /\ UNCHANGED <<SOFASCORE_CLIENT, telegram>>

NextCycle ==
    \/ \E answer \in LiveAnswers : StartCycle(answer)
    \/ SkipCycle
    \/ \E responses \in Responses : EvaluateNext(responses)
    \/ EvaluationRaises
    \/ \E plans \in Plans(FetchedBets(Store, now)), responses \in ReconcilerResponses :
           ReconcileCycle(plans, responses)
    \/ \E plans \in Plans(FetchedBets(Store, now)) : ReconcileRaises(plans)
    \/ SleepCycle

SpecCycle == InitCycle /\ [][NextCycle]_vars

(***************************************************************************)
(* Vocabulary of the properties.                                            *)
(***************************************************************************)
Evaluated == last.op = "process_live_match"
Reconciled == last.op = "check_and_resolve_stale_bets"

\* the snapshot just evaluated: its key, canonical status, minute and score
EvKey == Key(last.match.id)
EvStatus == Normalize(last.match.status)
EvMinute == last.match.total_elapsed_minutes
EvScore == ScoreString(last.match.home, last.match.away)

LogEvents(ev) == { i \in DOMAIN last.log : last.log[i].ev = ev }
LogEventsFor(ev, k) == { i \in LogEvents(ev) : last.log[i].id = k }

BetPlacedIn(st, k) == Get(Get(st.tracked, k, EmptyDict), "bet_placed_36", FALSE)

\* the unresolved records written by the handler that has just run
Written == { k \in DOMAIN unresolved :
               k \notin DOMAIN last.pre.unresolved \/ last.pre.unresolved[k] # unresolved[k] }

AtBetMinute == EvMinute # <<>> /\ Head(EvMinute) \in {36, 37}

\* C1: an evaluation creates (or writes) an Unresolved Bet Record only for the
\* fixture evaluated and only if beforehand bet_placed was false, the canonical
\* status is 1H, the minute is 36 or 37 and the score is "1-1", "2-2" or "3-3".
C1_UnresolvedOnlyOnQualifyingSnapshot ==
    Evaluated =>
        \A k \in Written \cup { last.log[i].id : i \in LogEvents("add_unresolved_bet") } :
            /\ k = EvKey
            /\ ~BetPlacedIn(last.pre, k)
            /\ EvStatus = <<"1","H">>
            /\ AtBetMinute
            /\ EvScore \in {"1-1", "2-2", "3-3"}

C1_Witness ==
    /\ Evaluated
    /\ EvKey \in Written
    /\ EvKey \notin DOMAIN last.pre.unresolved
    /\ LogEvents("add_unresolved_bet") # {}

\* C2: an HT snapshot evaluated for a fixture with an Unresolved Bet Record of
\* target score p moves the bet to Resolved with outcome win if the snapshot's
\* score string equals p and loss otherwise, and removes it from Unresolved.
C2_HalftimeResolution ==
    (Evaluated /\ EvStatus = <<"H","T">> /\ EvKey \in DOMAIN last.pre.unresolved) =>
        LET p == last.pre.unresolved[EvKey].score_36
        IN  /\ EvKey \in DOMAIN resolved
            /\ resolved[EvKey].outcome = (IF EvScore = p THEN "win" ELSE "loss")
            /\ resolved[EvKey].score_36 = p
            /\ resolved[EvKey].placed_at = last.pre.unresolved[EvKey].placed_at
            /\ EvKey \notin DOMAIN unresolved

C2_Witness ==
    /\ Evaluated
    /\ EvStatus = <<"H","T">>
    /\ EvKey \in DOMAIN last.pre.unresolved
    /\ last.pre.unresolved[EvKey].score_36 = "2-2"
    /\ EvScore = "2-1"
    /\ EvKey \in DOMAIN resolved
    /\ resolved[EvKey].outcome = "loss"

\* C3: the second of two consecutive evaluations of the same snapshot sends no
\* notification, does not call addUnresolved and leaves the Unresolved table
\* (placement timestamps included) as it was.
C3_SecondEvaluationIsSilent ==
    (Evaluated /\ last.rep >= 1) =>
        /\ LogEvents("send_telegram") = {}
        /\ LogEvents("add_unresolved_bet") = {}
        /\ unresolved = last.pre.unresolved

C3_Witness ==
    /\ Evaluated
    /\ last.rep >= 1
    /\ EvStatus = <<"1","H">>
    /\ AtBetMinute
    /\ EvScore \in {"1-1", "2-2", "3-3"}
    /\ EvKey \in DOMAIN unresolved
    /\ unresolved[EvKey].score_36 = EvScore

\* C4: every deletion of a tracking record happens while the fixture has no
\* Unresolved Bet Record, and no tracking record of a fixture that is in the
\* Unresolved table afterwards has disappeared.
C4_NoDeleteWhileUnresolved ==
    (Evaluated \/ Reconciled) =>
        /\ \A i \in LogEvents("delete_tracked_match") : ~last.log[i].while_unresolved
        /\ \A k \in DOMAIN last.pre.tracked : k \in DOMAIN unresolved => k \in DOMAIN tracked

C4_Witness ==
    /\ Evaluated
    /\ EvKey \in DOMAIN last.pre.tracked
    /\ EvKey \in DOMAIN last.pre.unresolved
    /\ EvKey \notin DOMAIN tracked
    /\ EvKey \in DOMAIN resolved
    /\ LogEventsFor("delete_tracked_match", EvKey) # {}

\* a bet the Evaluator placed (it places the regular type only) whose
\* placement is older than the wait threshold at time t
OldRegularBet(st, k, t) ==
    /\ k \in DOMAIN st.unresolved
    /\ Get(st.unresolved[k], "bet_type", None) = "regular"
    /\ Parses(st.unresolved[k].placed_at)
    /\ strptime(st.unresolved[k].placed_at) < t - 180 * 60 * TicksPerSecond

\* the last-call timestamp was never set or does not parse, or 900 s have passed
GateOpenIn(st, t) ==
    LET lc == get_last_api_call(st)
    IN  \/ lc = NoStamp
        \/ ~Parses(lc)
        \/ t - strptime(lc) >= 900 * TicksPerSecond

SourceSaysFinishedWith(k, score) ==
    /\ k \in DOMAIN last.fetch
    /\ last.fetch[k].got
    /\ \/ Contains(<<"F","I","N","I","S","H","E","D">>, Upper(last.fetch[k].status))
       \/ Contains(<<"E","N","D","E","D">>, Upper(last.fetch[k].status))
    /\ ScoreString(last.fetch[k].home, last.fetch[k].away) = score

\* C5: when the Reconciler runs with the rate gate open, the notification
\* delivered and the source reporting as finished, with the placed score, a bet
\* of the Evaluator older than the wait threshold, the fixture ends up in
\* Resolved with outcome win and in neither the tracking nor the Unresolved table.
C5_StaleRoundTrip ==
    (Reconciled /\ last.delivered /\ GateOpenIn(last.pre, now)) =>
        \A k \in DOMAIN last.pre.unresolved :
            (/\ OldRegularBet(last.pre, k, now)
             /\ SourceSaysFinishedWith(k, last.pre.unresolved[k].score_36)) =>
                /\ k \in DOMAIN resolved
                /\ resolved[k].outcome = "win"
                /\ k \notin DOMAIN tracked
                /\ k \notin DOMAIN unresolved

\* C6: the Reconciler fetches only if the stale set is non-empty and the rate
\* gate is open; with an empty stale set, or with the last call less than the
\* interval ago, it fetches nothing, sends nothing and changes no table.
C6_RateGate ==
    Reconciled =>
        LET stale == get_stale_unresolved_bets(last.pre, 180, now)
        IN  /\ LogEvents("fetch") # {} => (DOMAIN stale # {} /\ GateOpenIn(last.pre, now))
            /\ (DOMAIN stale = {} \/ ~GateOpenIn(last.pre, now)) =>
                   (last.log = <<>> /\ Store = last.pre)

C6_Witness ==
    /\ Reconciled
    /\ DOMAIN get_stale_unresolved_bets(last.pre, 180, now) # {}
    /\ ~GateOpenIn(last.pre, now)
    /\ last.log = <<>>

\* C7: a bet of the Evaluator still unresolved when the fixture is seen finished
\* is not deleted by that evaluation, and every bet of the Evaluator older than
\* the wait threshold is returned by listStaleUnresolved(waitMinutes).
C7_MissedHalftimeBetBecomesStale ==
    /\ (Evaluated /\ EvStatus = <<"F","T">> /\ EvKey \in DOMAIN last.pre.unresolved) =>
           (/\ EvKey \in DOMAIN unresolved
            /\ unresolved[EvKey] = last.pre.unresolved[EvKey]
            /\ EvKey \in DOMAIN last.pre.tracked => EvKey \in DOMAIN tracked)
    /\ \A k \in DOMAIN unresolved :
           OldRegularBet(Store, k, now) =>
               k \in DOMAIN get_stale_unresolved_bets(Store, BET_RESOLUTION_WAIT_MINUTES, now)

\* C8: evaluating an FT snapshot for a fixture that has a Tracking Record and no
\* Unresolved Bet Record deletes the Tracking Record.
C8_CleanupAtFullTime ==
    (/\ Evaluated
     /\ EvStatus = <<"F","T">>
     /\ EvKey \in DOMAIN last.pre.tracked
     /\ EvKey \notin DOMAIN last.pre.unresolved) =>
        EvKey \notin DOMAIN tracked

\* C9: evaluating a snapshot whose canonical status is neither a live status
\* nor HT changes no table and sends nothing.
C9_NotLiveIsIgnored ==
    (/\ Evaluated
     /\ EvStatus \notin { <<"L","I","V","E">>, <<"1","H">>, <<"2","H">>, <<"E","T">>, <<"P">> }
     /\ EvStatus # <<"H","T">>) =>
        /\ Store = last.pre
        /\ last.log = <<>>

C9_Witness ==
    /\ Evaluated
    /\ EvStatus = <<"F","T">>
    /\ EvKey \in DOMAIN tracked
    /\ EvKey \notin DOMAIN unresolved
    /\ Store = last.pre

\* the fixture was evaluated at minute 36/37 and deliberately skipped
SkippedIn(st, k) ==
    /\ k \in DOMAIN st.tracked
    /\ Get(st.tracked[k], "bet_placed_36", FALSE)
    /\ Get(st.tracked[k], "score_36", None) = None
    /\ k \notin DOMAIN st.unresolved

\* C10: a 1H minute-36/37 evaluation with bet_placed false, no Unresolved record
\* and a non-qualifying score sets bet_placed, creates no Unresolved record and
\* sends nothing; and a fixture skipped this way stays skipped through every
\* later handler, none of which places a bet or sends a notification for it.
C10_SkippedForGood ==
    /\ (/\ Evaluated
        /\ EvStatus = <<"1","H">>
        /\ AtBetMinute
        /\ ~BetPlacedIn(last.pre, EvKey)
        /\ EvKey \notin DOMAIN last.pre.unresolved
        /\ EvScore \notin {"1-1", "2-2", "3-3"}) =>
           (/\ SkippedIn(Store, EvKey)
            /\ unresolved = last.pre.unresolved
            /\ LogEvents("send_telegram") = {})
    /\ (Evaluated \/ Reconciled) =>
           \A k \in DOMAIN last.pre.tracked :
               SkippedIn(last.pre, k) =>
                   /\ SkippedIn(Store, k)
                   /\ LogEventsFor("add_unresolved_bet", k) = {}
                   /\ LogEventsFor("send_telegram", k) = {}

C10_Witness ==
    /\ Evaluated
    /\ SkippedIn(last.pre, EvKey)
    /\ EvStatus = <<"1","H">>
    /\ AtBetMinute
    /\ EvScore \in {"1-1", "2-2", "3-3"}
    /\ SkippedIn(Store, EvKey)

\* C11: a 1H minute-36/37 evaluation of a fixture whose bet_placed is false (or
\* whose Tracking Record is missing) and which already has an Unresolved Bet
\* Record leaves the Unresolved table as it was (addUnresolved is not called),
\* sends no notification and sets bet_placed to true.
C11_RestartPreCheck ==
    (/\ Evaluated
     /\ EvStatus = <<"1","H">>
     /\ AtBetMinute
     /\ ~BetPlacedIn(last.pre, EvKey)
     /\ EvKey \in DOMAIN last.pre.unresolved) =>
        /\ unresolved = last.pre.unresolved
        /\ LogEvents("add_unresolved_bet") = {}
        /\ LogEvents("send_telegram") = {}
        /\ BetPlacedIn(Store, EvKey)

C11_Witness ==
    /\ Evaluated
    /\ EvStatus = <<"1","H">>
    /\ AtBetMinute
    /\ EvScore \in {"1-1", "2-2", "3-3"}
    /\ EvKey \notin DOMAIN last.pre.tracked
    /\ EvKey \in DOMAIN last.pre.unresolved
    /\ unresolved[EvKey] = last.pre.unresolved[EvKey]
    /\ BetPlacedIn(Store, EvKey)

\* C17: in every handler that sends a placement or resolution notification,
\* every Store mutation the handler makes for that fixture precedes the send.
C17_MutationsBeforeSend ==
    (Evaluated \/ Reconciled) =>
        \A i \in LogEvents("send_telegram") :
            \A j \in DOMAIN last.log :
                (last.log[j].ev \in Mutations /\ last.log[j].id = last.log[i].id) => j < i

\* C18: the four tables after an evaluation that sends a notification are the
\* same whether the send returns true or false.
C18_DeliveryDoesNotAlterTables ==
    (Evaluated /\ LogEvents("send_telegram") # {}) =>
        \A d \in BOOLEAN :
            process_live_match(Context(last.pre), last.match, now, d).st = Store

C18_Witness ==
    /\ Evaluated
    /\ EvStatus = <<"H","T">>
    /\ \E i \in LogEvents("send_telegram") : ~last.log[i].delivered
    /\ EvKey \in DOMAIN last.pre.unresolved
    /\ EvKey \in DOMAIN resolved
    /\ EvKey \notin DOMAIN unresolved

(***************************************************************************)
(* Properties of the tables and their files (SpecDurable).                  *)
(***************************************************************************)
\* the process has started again after a stop, and since the first start no
\* write has failed and no file was damaged
Restarted == last.op = "start" /\ pc.at = "idle"
NoFault == faults = NoFaults

PlacedScoreIn(st, k) == Get(Get(st.tracked, k, EmptyDict), "score_36", None)

\* C12: between evaluations, restarts included, a Tracking Record with a
\* placed score ('36_score' not null) belongs to a fixture that has an
\* Unresolved Bet Record or a Resolved record, and the Tracking Record of a
\* fixture with an Unresolved Bet Record has a placed score.
C12_PlacedScoreIffBet ==
    pc.at = "idle" =>
        \A k \in DOMAIN tracked :
            /\ PlacedScoreIn(Store, k) # None => (k \in DOMAIN unresolved \/ k \in DOMAIN resolved)
            /\ k \in DOMAIN unresolved => PlacedScoreIn(Store, k) # None

\* C13: after a stop during move_to_resolved and a start from the files, the
\* bet is in exactly one of the Unresolved and the Resolved table.
C13_MoveIsAtomic ==
    (Restarted /\ NoFault /\ last.call.ev = "move_to_resolved") =>
        (last.call.id \in DOMAIN unresolved) # (last.call.id \in DOMAIN resolved)

\* the handler that was interrupted was placing a bet
PlacementInterrupted ==
    /\ last.handler.op = "process_live_match"
    /\ \E i \in DOMAIN last.handler.log : last.handler.log[i].ev = "add_unresolved_bet"

\* C14: after a stop during a qualifying placement and a start from the files,
\* the Tracking Record has bet_placed with a placed score if and only if the
\* fixture has its Unresolved Bet Record.
C14_PlacementIsAtomic ==
    (Restarted /\ NoFault /\ PlacementInterrupted) =>
        LET k == Key(last.handler.match.id)
        IN  (BetPlacedIn(Store, k) /\ PlacedScoreIn(Store, k) # None) <=> k \in DOMAIN unresolved

C16_LoadNeverFails ==
    /\ pc.at # "failed"
    /\ Restarted =>
           \A f \in FileNames :
               Store[f] = (IF disk[f].kind = "json" THEN disk[f].data ELSE EmptyDict)

(***************************************************************************)
(* Properties of the main loop (SpecCycle).                                 *)
(***************************************************************************)
NotesFor(k) == { i \in DOMAIN cycle.notes : cycle.notes[i] = k }

\* C19: in one cycle at most one notification is sent for any one fixture,
\* the sends of the evaluations and of the Reconciler run of the cycle taken
\* together.
C19_OneNotificationPerFixturePerCycle ==
    \A k \in { Key(f) : f \in Fixtures } : Cardinality(NotesFor(k)) <= 1

C19_Witness ==
    /\ cycle.at = "done"
    /\ Reconciled
    /\ LogEvents("fetch") # {}
    /\ \E k \in DOMAIN last.fetch : last.fetch[k].got
    /\ \E k \in { Key(f) : f \in Fixtures } : Cardinality(NotesFor(k)) = 1

\* C20: an evaluation that raises does not end the process: the remaining
\* matches of the cycle are evaluated, the Reconciler runs and later cycles
\* follow.
C20_EvaluationFailureIsIsolated ==
    last.op = "raised" => cycle.at # "terminated"

(***************************************************************************)
(* Lazy creation of the tracking record.                                    *)
(***************************************************************************)
\* the fixture just evaluated had left no record in any table
Unseen ==
    /\ EvKey \notin DOMAIN last.pre.tracked
    /\ EvKey \notin DOMAIN last.pre.unresolved
    /\ EvKey \notin DOMAIN last.pre.resolved

InLiveSetOrHT == EvStatus \in STATUS_LIVE \/ EvStatus = STATUS_HALFTIME

\* C30 as stated: after the first evaluation of a previously unseen fixture
\* whose canonical status is in the live set or HT, the tracking table holds a
\* record for it with the defaults bet_placed = false, placed_score = null.
C30_RecordWithDefaultsOnFirstSighting ==
    (Evaluated /\ Unseen /\ InLiveSetOrHT)
        => (EvKey \in DOMAIN tracked /\ tracked[EvKey] = DefaultState)

\* C30, amended: after the first evaluation of a previously unseen fixture
\* whose canonical status is in the live set or HT, the tracking table holds a
\* record for it exactly when the snapshot was 1H at a bet minute, and that
\* record has bet_placed = true; in every other case (1H at minute 10, say)
\* the table holds no record for the fixture.
C30_RecordOnlyAtBetMinute ==
    (Evaluated /\ Unseen /\ InLiveSetOrHT)
        => /\ EvKey \in DOMAIN tracked <=> (EvStatus = <<"1","H">> /\ AtBetMinute)
           /\ EvKey \in DOMAIN tracked => BetPlacedIn(Store, EvKey)

\* an unseen fixture has been evaluated at 1H, minute 10, and has no record
C30_Witness ==
    /\ Evaluated /\ Unseen
    /\ EvStatus = <<"1","H">>
    /\ EvMinute = <<10>>
    /\ EvKey \notin DOMAIN tracked

(***************************************************************************)
(* The resolved table.                                                      *)
(***************************************************************************)
\* C28: resolved records are append-only: a handler leaves every record the
\* resolved table held before it in the table with the same outcome, target
\* score and resolution timestamp.
C28_ResolvedIsAppendOnly ==
    (Evaluated \/ Reconciled)
        => \A k \in DOMAIN last.pre.resolved :
               /\ k \in DOMAIN resolved
               /\ resolved[k].outcome = last.pre.resolved[k].outcome
               /\ resolved[k].score_36 = last.pre.resolved[k].score_36
               /\ resolved[k].resolution_timestamp = last.pre.resolved[k].resolution_timestamp

(***************************************************************************)
(* The Notifier (SpecCycle).                                                *)
(***************************************************************************)
\* the handler that has just run has called send_telegram
Sent == last.op \in {"process_live_match", "check_and_resolve_stale_bets"} /\ last.send.sent

HasCredentials == telegram.TELEGRAM_TOKEN # None /\ telegram.TELEGRAM_CHAT_ID # None

\* C29: a send makes at most 3 posts, stops and returns true at the first post
\* answered with 200, returns false after 3 failed posts, sleeps 1 s and then
\* 2 s between posts and does not sleep after the last one; without the
\* credentials it returns false without any post.
C29_SendIsBounded ==
    Sent =>
        LET n == Len(last.send.posts)
        IN  /\ n <= 3
            /\ \A i \in 1..n : last.send.posts[i] = last.send.responses[i]
            /\ \A i \in 1..(n - 1) : last.send.posts[i] # "200"
            /\ last.send.returns <=> (n > 0 /\ last.send.posts[n] = "200")
            /\ (HasCredentials /\ ~last.send.returns) => n = 3
            /\ last.send.sleeps = [i \in 1..(n - 1) |-> 2 ^ (i - 1)]
            /\ ~HasCredentials => (n = 0 /\ ~last.send.returns)

\* three posts have failed: the send has slept 1 s and 2 s and returned false
C29_Witness ==
    /\ Sent
    /\ HasCredentials
    /\ ~last.send.returns
    /\ Len(last.send.posts) = 3
    /\ last.send.sleeps = <<1, 2>>

(***************************************************************************)
(* The fetches of the Reconciler (SpecCycle).                               *)
(***************************************************************************)
\* the Reconciler has returned and the sleep has not begun: now is the time of
\* the run
JustReconciled == Reconciled /\ cycle.at = "done"

\* the bets the Reconciler run that has just returned has fetched
Fetched == IF JustReconciled THEN DOMAIN last.runs ELSE {}

TraceOf(k) == last.runs[k].trace
Calls(k, ev) == { i \in DOMAIN TraceOf(k) : TraceOf(k)[i].ev = ev }

\* get_event, called as the n-th fetch of the run for bet k, returns the event
\* of the fixture
Answers(k, n) ==
    /\ last.plans[k].answers[n].kind = "event"
    /\ last.plans[k].answers[n].id = last.pre.unresolved[k].sofascored_id

\* C22: the robust fetch for one stale bet returns the first successful fetch
\* result, makes at most MAX_FETCH_RETRIES ordinary fetches and at most one
\* more after re-creating the client, and re-creates the client at most once,
\* and only once all the ordinary attempts have failed.
C22_RetryProtocol ==
    \A k \in Fetched :
        LET trace == TraceOf(k)
            fetches == Calls(k, "get_event")
        IN  /\ Cardinality(fetches) <= MAX_FETCH_RETRIES + 1
            /\ Cardinality({ i \in fetches : trace[i].n <= MAX_FETCH_RETRIES }) <= MAX_FETCH_RETRIES
            /\ \A i, j \in fetches : i < j => trace[i].n < trace[j].n
            \* every fetch but the last has failed, and the last one decides
            /\ \A i \in fetches :
                   Answers(k, trace[i].n) => (i = Len(trace) /\ last.runs[k].result.got)
            /\ last.runs[k].result.got =>
                   /\ trace # <<>> /\ trace[Len(trace)].ev = "get_event"
                   /\ Answers(k, trace[Len(trace)].n)
                   /\ last.runs[k].result.status = last.plans[k].answers[trace[Len(trace)].n].status
            /\ Cardinality(Calls(k, "initialize")) <= 1
            /\ \A i \in Calls(k, "initialize") :
                   /\ \A j \in fetches : j < i <=> trace[j].n <= MAX_FETCH_RETRIES
                   /\ Cardinality({ j \in Calls(k, "sleep") : j < i }) = MAX_FETCH_RETRIES - 1

\* three fetches have failed, the client has been re-created and the fourth
\* fetch has returned the event
C22_Witness ==
    \E k \in Fetched :
        /\ Cardinality(Calls(k, "get_event")) = MAX_FETCH_RETRIES + 1
        /\ Calls(k, "initialize") # {}
        /\ last.runs[k].result.got

\* C21: when the fetch for one stale bet fails, all attempts returning nothing,
\* that bet is left as it was in the unresolved table and every other stale
\* bet of the batch is fetched in the same run.
C21_FetchFailureIsIsolated ==
    \A k \in Fetched :
        ~last.runs[k].result.got =>
            /\ k \in DOMAIN unresolved
            /\ unresolved[k] = last.pre.unresolved[k]
            /\ \A k2 \in DOMAIN FetchedBets(last.pre, now) : LogEventsFor("fetch", k2) # {}

\* the fetch for one bet has failed and the bet after it has been fetched
C21_Witness ==
    \E k, k2 \in Fetched :
        /\ ~last.runs[k].result.got
        /\ last.runs[k2].result.got
        /\ \E i \in LogEventsFor("fetch", k), j \in LogEventsFor("fetch", k2) : i < j

\* C23: a bet whose fetch attempts are exhausted, the re-creation of the client
\* having failed or not, stays in the unresolved table, and the cycles that
\* follow fetch and evaluate the live matches: no cycle is skipped.
C23_ExhaustedFetchDoesNotStopTheCycles ==
    /\ \A k \in Fetched : ~last.runs[k].result.got => k \in DOMAIN unresolved
    /\ last.op # "skipped"

\* C24: a Reconciler run that has passed the rate gate sets the last-call
\* timestamp to the current time if the fetch for at least one bet of the batch
\* has succeeded, whatever the other fetches gave and no bet being resolved;
\* it leaves the timestamp as it was if every fetch has failed, and the rate
\* gate is then still open at the next cycle.
C24_LastCallTimestamp ==
    (JustReconciled /\ DOMAIN FetchedBets(last.pre, now) # {}) =>
        IF \E k \in DOMAIN FetchedBets(last.pre, now) : last.fetch[k].got
        THEN get_last_api_call(Store) = strftime(now)
        ELSE /\ config = last.pre.config
             /\ RateGateOpen(Store, now + SLEEP_TIME * TicksPerSecond)

\* one fetch of the batch has failed, another has succeeded, no bet has been
\* resolved and the timestamp has been set
C24_Witness ==
    /\ JustReconciled
    /\ \E k, k2 \in DOMAIN FetchedBets(last.pre, now) : ~last.fetch[k].got /\ last.fetch[k2].got
    /\ unresolved = last.pre.unresolved
    /\ get_last_api_call(last.pre) = NoStamp
    /\ get_last_api_call(Store) = strftime(now)

(***************************************************************************)
(* What the Reconciler resolves (SpecLoaded).                               *)
(***************************************************************************)
\* the source has returned for bet k an event in a finished state
SourceSaysFinished(k) ==
    /\ last.fetch[k].got
    /\ \/ Contains(<<"F","I","N","I","S","H","E","D">>, Upper(last.fetch[k].status))
       \/ Contains(<<"E","N","D","E","D">>, Upper(last.fetch[k].status))

\* C25: the Reconciler moves a bet to the resolved table, and deletes its
\* tracking record, only if the fetched event is in a finished state and the
\* notification has been delivered; if the event is not finished or the
\* delivery fails, the bet stays in the unresolved table as it was and its
\* tracking record is not deleted.
C25_ResolvesOnlyFinishedAndDelivered ==
    Reconciled =>
        \A k \in DOMAIN last.pre.unresolved :
            /\ (\/ k \notin DOMAIN unresolved
                \/ LogEventsFor("move_to_resolved", k) # {}
                \/ LogEventsFor("delete_tracked_match", k) # {})
                   => (SourceSaysFinished(k) /\ last.delivered)
            /\ (~SourceSaysFinished(k) \/ ~last.delivered) =>
                   /\ k \in DOMAIN unresolved
                   /\ unresolved[k] = last.pre.unresolved[k]
                   /\ k \in DOMAIN last.pre.tracked =>
                          (k \in DOMAIN tracked /\ tracked[k] = last.pre.tracked[k])

\* a stale bet with a tracking record has been fetched, the event is in its
\* second half, and the bet and the record are as they were
C25_Witness ==
    /\ Reconciled
    /\ \E k \in DOMAIN get_stale_unresolved_bets(last.pre, BET_RESOLUTION_WAIT_MINUTES, now) :
           /\ LogEventsFor("fetch", k) # {}
           /\ last.fetch[k].got
           /\ ~SourceSaysFinished(k)
           /\ k \in DOMAIN last.pre.tracked
           /\ k \in DOMAIN tracked
           /\ unresolved[k] = last.pre.unresolved[k]

(***************************************************************************)
(* The order of a cycle (SpecCycle).                                        *)
(***************************************************************************)
\* C26: in each cycle the Reconciler runs exactly once and only after every
\* match the live fetch returned has been evaluated, and the cycle is complete
\* when the sleep begins: a cycle that reaches its sleep has run the
\* Reconciler once, with no match left to evaluate, and no evaluation or
\* reconciliation happens outside a cycle.
C26_CycleOrdering ==
    /\ Reconciled => cycle.todo = <<>>
    /\ cycle.at = "evaluate" => cycle.reconciled = 0
    /\ cycle.at = "done" => (cycle.reconciled = 1 /\ cycle.todo = <<>>)
    /\ (cycle.at = "sleep" /\ ticks > 0) => (cycle.reconciled = 1 /\ cycle.todo = <<>>)

BetBefore == Get(last.pre.unresolved, EvKey, EmptyDict)
HalftimeOutcome == IF EvScore = Get(BetBefore, "score_36", "N/A") THEN "win" ELSE "loss"
ResolvedAtHalftime ==
    /\ LogEventsFor("move_to_resolved", EvKey) # {}
    /\ EvKey \in DOMAIN resolved
    /\ EvKey \notin DOMAIN unresolved
    /\ resolved[EvKey].outcome = HalftimeOutcome
UntouchedAtHalftime ==
    /\ LogEvents("move_to_resolved") = {}
    /\ unresolved = last.pre.unresolved
    /\ resolved = last.pre.resolved

C32_AtMostOneBetPerFixture ==
    /\ DOMAIN unresolved \cap DOMAIN resolved = {}
    /\ Evaluated =>
          /\ \A i \in LogEvents("add_unresolved_bet") :
                 last.log[i].id \notin DOMAIN last.pre.resolved
          /\ \A i \in LogEvents("send_telegram") :
                 last.log[i].kind = "placement" => last.log[i].id \notin DOMAIN last.pre.resolved

(***************************************************************************)
(* A snapshot without an elapsed minute (Spec).                             *)
(***************************************************************************)
\* C33: a snapshot whose elapsed minute is absent changes no table and sends
\* no notification when its canonical status is a live status, but an HT
\* snapshot whose minute is absent is evaluated: the unresolved bet of the
\* fixture is moved to the Resolved table, with its notification.
C33_AbsentMinute ==
    (Evaluated /\ EvMinute = <<>>) =>
        /\ EvStatus \in STATUS_LIVE => (Store = last.pre /\ last.log = <<>>)
        /\ (EvStatus = STATUS_HALFTIME /\ EvKey \in DOMAIN last.pre.unresolved) =>
              /\ LogEventsFor("move_to_resolved", EvKey) # {}
              /\ LogEventsFor("send_telegram", EvKey) # {}
              /\ EvKey \in DOMAIN resolved
              /\ EvKey \notin DOMAIN unresolved

\* an HT snapshot without a minute has resolved the bet of its fixture
C33_Witness ==
    /\ Evaluated
    /\ EvMinute = <<>>
    /\ EvStatus = STATUS_HALFTIME
    /\ EvKey \in DOMAIN last.pre.unresolved
    /\ EvKey \in DOMAIN resolved
    /\ LogEventsFor("move_to_resolved", EvKey) # {}

(***************************************************************************)
(* The canonical status, text by text (SpecStatus): process_live_match is   *)
(* run once on a snapshot at minute 36 with the score 1-1, with the tables  *)
(* empty, for every status text made of two fragments.                      *)
(***************************************************************************)
StatusFragments ==
    { <<>>,
      <<"1","s","t"," ","h","a","l","f">>,
      <<"2","n","d"," ","h","a","l","f">>,
      <<"H","a","l","f","t","i","m","e">>,
      <<"F","i","n","i","s","h","e","d">>,
      <<"E","n","d","e","d">>,
      <<"C","a","n","c","e","l","l","e","d">>,
      <<"L","I","V","E">>,
      <<"l","i","v","e">>,
      <<"1","H">>,
      <<"2","H">>,
      <<"E","T">>,
      <<"P">>,
      <<"H","T">>,
      <<"A","E","T">>,
      <<"N","o","t"," ","s","t","a","r","t","e","d">> }

WideStatusTexts == { a \o b : a \in StatusFragments, b \in StatusFragments }

InitStatus ==
    /\ tracked = EmptyDict
    /\ unresolved = EmptyDict
    /\ resolved = EmptyDict
    /\ config = EmptyDict
    /\ now = 0
    /\ ticks = 0
    /\ live \in { << [id |-> 100, status |-> text, total_elapsed_minutes |-> <<36>>,
                       home |-> 1, away |-> 1] >> : text \in WideStatusTexts }
    /\ last = NoOp
    /\ disk = [f \in FileNames |-> MissingFile]
    /\ pc = IdlePc
    /\ faults = NoFaults
    /\ cycle = NoCycle
    /\ SOFASCORE_CLIENT = Client
    /\ telegram = Credentials

\* process_live_match on the snapshot; status is the value of the local
\* variable status after line 489
EvaluateStatus(delivered) ==
    /\ live # <<>>
    /\ LET c == process_live_match(Context(Store), Head(live), now, delivered)
       IN  /\ SetStore(c.st)
           /\ last' = [op |-> "process_live_match",
                       match |-> Head(live),
                       pre |-> Store,
                       log |-> c.log,
                       rep |-> 0,
                       status |-> Normalize(Head(live).status)]
           /\ disk' = Saved(disk, c)
    /\ live' = <<>>
    /\ UNCHANGED <<now, ticks, pc, faults, cycle, SOFASCORE_CLIENT, telegram>>

NextStatus == \E delivered \in BOOLEAN : EvaluateStatus(delivered)

SpecStatus == InitStatus /\ [][NextStatus]_vars

\* the upper-cased text just classified and the substring test on it
UpperText == Upper(last.match.status)
Has(marker) == Contains(marker, UpperText)
HasFirstHalf == Has(<<"1","S","T"," ","H","A","L","F">>)
HasSecondHalf == Has(<<"2","N","D"," ","H","A","L","F">>)
HasHalftime == Has(<<"H","A","L","F","T","I","M","E">>)
HasFinished == Has(<<"F","I","N","I","S","H","E","D">>) \/ Has(<<"E","N","D","E","D">>) \/ Has(<<"C","A","N","C","E","L","L","E","D">>)
CanonicalStatuses == { <<"1","H">>, <<"2","H">>, <<"H","T">>, <<"F","T">>, <<"L","I","V","E">>,
                       <<"E","T">>, <<"P">>, <<"N","/","A">> }

\* C34: the canonical status is 1H if the upper-cased text contains
\* "1ST HALF"; else 2H if it contains "2ND HALF"; else HT if it contains
\* "HALFTIME"; else FT if it contains "FINISHED", "ENDED" or "CANCELLED"; else
\* the text itself if it is exactly LIVE, 1H, 2H, ET or P; else N/A.  A text
\* with a half marker and "ENDED" is that half, and the result is always one
\* of the eight canonical values.  At minute 36 with the score 1-1 a bet is
\* placed exactly for the texts classified as 1H.
C34_StatusNormalization ==
    (Evaluated /\ "status" \in DOMAIN last) =>
        LET status == last.status
            passes == UpperText \in { <<"L","I","V","E">>, <<"1","H">>, <<"2","H">>, <<"E","T">>, <<"P">> }
        IN  /\ HasFirstHalf => status = <<"1","H">>
            /\ (~HasFirstHalf /\ HasSecondHalf) => status = <<"2","H">>
            /\ (~HasFirstHalf /\ ~HasSecondHalf /\ HasHalftime) => status = <<"H","T">>
            /\ (~HasFirstHalf /\ ~HasSecondHalf /\ ~HasHalftime /\ HasFinished) => status = <<"F","T">>
            /\ (~HasFirstHalf /\ ~HasSecondHalf /\ ~HasHalftime /\ ~HasFinished /\ passes)
                   => status = UpperText
            /\ (~HasFirstHalf /\ ~HasSecondHalf /\ ~HasHalftime /\ ~HasFinished /\ ~passes)
                   => status = <<"N","/","A">>
            /\ status \in CanonicalStatuses
            /\ (status = <<"1","H">>) <=> (LogEvents("add_unresolved_bet") # {})

\* a text with "1st half" and "Ended" has been classified as 1H and the bet
\* of minute 36 has been placed on it
C34_Witness ==
    /\ Evaluated
    /\ "status" \in DOMAIN last
    /\ HasFirstHalf
    /\ Has(<<"E","N","D","E","D">>)
    /\ last.status = <<"1","H">>
    /\ LogEvents("add_unresolved_bet") # {}

(***************************************************************************)
(* The stale scan, table by table (SpecStale): get_stale_unresolved_bets    *)
(* is called on unresolved tables loaded from the file, whose records have  *)
(* a placement timestamp of second 0 or 1, an unparseable one or none, at   *)
(* clock readings around the threshold.                                     *)
(***************************************************************************)
StaleStamps == { strftime(0), strftime(TicksPerSecond), BadStamp }
BetTypes == { "80_minute", BET_TYPE_REGULAR }

StaleRecords(id) ==
    { [placed_at |-> stamp, bet_type |-> type, fixture_id |-> id, sofascored_id |-> id] :
        stamp \in StaleStamps, type \in BetTypes }
    \cup { [bet_type |-> type, fixture_id |-> id, sofascored_id |-> id] : type \in BetTypes }

StaleTables ==
    { EmptyDict }
    \cup { Put(EmptyDict, Key(100), a) : a \in StaleRecords(100) }
    \cup { Put(Put(EmptyDict, Key(100), a), Key(200), b) :
             a \in StaleRecords(100), b \in StaleRecords(200) }

StaleClock == { WaitTicks + d : d \in {0, 1, TicksPerSecond, TicksPerSecond + 1} }
WaitMinutes == { 0, BET_RESOLUTION_WAIT_MINUTES }

InitStale ==
    /\ tracked = EmptyDict
    /\ unresolved \in StaleTables
    /\ resolved = EmptyDict
    /\ config = EmptyDict
    /\ now \in StaleClock
    /\ ticks = 0
    /\ live = <<>>
    /\ last = NoOp
    /\ disk = save_all(Store)
    /\ pc = IdlePc
    /\ faults = NoFaults
    /\ cycle = NoCycle
    /\ SOFASCORE_CLIENT = Client
    /\ telegram = Credentials

\* local_file_manager.get_stale_unresolved_bets(minutes_to_wait)
ListStale(minutes_to_wait) ==
    /\ last' = [op |-> "get_stale_unresolved_bets",
                minutes_to_wait |-> minutes_to_wait,
                t |-> now,
                pre |-> Store,
                stale_bets |-> get_stale_unresolved_bets(Store, minutes_to_wait, now)]
    /\ UNCHANGED <<tracked, unresolved, resolved, config, now, ticks, live>>
    /\ UNCHANGED <<disk, pc, faults, cycle, SOFASCORE_CLIENT, telegram>>

NextStale == \E minutes_to_wait \in WaitMinutes : ListStale(minutes_to_wait)

SpecStale == InitStale /\ [][NextStale]_vars

Listed == last.op = "get_stale_unresolved_bets"
\* now minus waitMinutes, in ticks
Threshold == last.t - last.minutes_to_wait * 60 * TicksPerSecond

\* C35: the stale scan returns only records that are in the Unresolved table
\* and whose placement timestamp is strictly older than now minus
\* waitMinutes; a younger bet, or one whose timestamp is missing or
\* unparseable, is not returned, and the call changes no table.
C35_StaleScan ==
    Listed =>
        /\ \A k \in DOMAIN last.stale_bets :
              /\ k \in DOMAIN unresolved
              /\ last.stale_bets[k] = unresolved[k]
              /\ "placed_at" \in DOMAIN unresolved[k]
              /\ unresolved[k].placed_at.kind = "time"
              /\ unresolved[k].placed_at.sec * TicksPerSecond < Threshold
        /\ Store = last.pre
        /\ disk = save_all(last.pre)

\* of two bets of the type that is scanned, the one placed at second 0 is
\* returned and the one placed a second later, exactly at the threshold, is
\* not
C35_Witness ==
    /\ Listed
    /\ DOMAIN unresolved = {Key(100), Key(200)}
    /\ DOMAIN last.stale_bets = {Key(100)}
    /\ unresolved[Key(200)].bet_type = "80_minute"
    /\ "placed_at" \in DOMAIN unresolved[Key(200)]
    /\ unresolved[Key(200)].placed_at = strftime(TicksPerSecond)
    /\ Threshold = TicksPerSecond

(***************************************************************************)
(* The waits of the robust fetch (SpecCycle).                               *)
(***************************************************************************)
\* C36: in the robust fetch for one stale bet the k-th wait lasts 2^(k-1)
\* seconds, and a wait occurs only between two attempts: every wait is
\* followed by a further step of the run, so there is none after the attempt
\* that follows the re-creation of the client has failed.
C36_BackoffSchedule ==
    \A k \in Fetched :
        LET trace == TraceOf(k)
            sleeps == Calls(k, "sleep")
        IN  /\ \A i \in sleeps : trace[i].s = 2 ^ Cardinality({ j \in sleeps : j < i })
            /\ \A i \in sleeps : i < Len(trace)
====
